---------------------------- MODULE Spec2Model ----------------------------
(***************************************************************************)
(* A model of the Vow reading-profile backend: the add-item ingestion      *)
(* pipeline over the in-memory repositories, the Redis sliding-window rate *)
(* limiter, the reading-streak batch job, the item search query and the    *)
(* cursor pagination of the item repository.                               *)
(*                                                                         *)
(* Strings are tuples of one-character strings, so that length, prefix,    *)
(* substring and regular-expression tests are computed, not assumed.       *)
(* An optional value (undefined / null in the source) is a set with at     *)
(* most one element: {} is "absent", {v} is "present with value v".        *)
(***************************************************************************)
EXTENDS Integers, Sequences, FiniteSets, Bags, TLC

VARIABLES
    now,        \* Date.now(), in milliseconds
    items,      \* MockItemRepository.data: the set of stored Item records
    users,      \* MockUserRepository.data: user id -> UserStats
    nextId,     \* source of fresh item ids (Date.now() + Math.random() suffix)
    calls,      \* per worker, its AddItemUseCase.execute call: position and locals
    started,    \* number of execute calls entered so far
    jobs,       \* JobScheduler: bag of scheduled fetch-metadata jobs
    events,     \* EventEmitter: bag of emitted item.added events
    audits,     \* AuditLogger: bag of item.created audit entries
    pager,      \* a client paging through findByUserId: its options and pages
    zsets,      \* Redis: key -> members of the sorted set stored under it
    expiry,     \* Redis: key -> time at which the key expires (0: no expiry)
    checks,     \* per caller, its RateLimiter.checkLimit call: position and locals
    batch,      \* UpdateReadingStreakUseCase.executeBatch: position and locals
    runs,       \* the completed executeBatch runs: day, users given, streaks left
    tracked,    \* AnalyticsLogger: bag of tracked events
    logs,       \* Logger of the streak batch: bag of log entries
    searcher,   \* a client of SearchItemsUseCase.execute: its input, call and pages
    cache,      \* CacheClient of the search: the entries set so far
    accounts,   \* MockUserRepository.data: the set of stored User records
    creates,    \* per caller, its MockUserRepository.create call: position and locals
    breaker,    \* CircuitBreaker: state, failures, lastFailureTime
    attempts,   \* per caller, its CircuitBreaker.execute call: position and outcome
    tiers,      \* MultiTierCache: the l1 map and the keys of the Redis behind l2
    gets,       \* per caller, its MultiTierCache.get call: position and locals
    keyed       \* two search inputs and the cache keys generated for them

ingestionVars == <<nextId, calls, started, jobs, events, audits>>
limiterVars == <<zsets, expiry, checks>>
streakVars == <<batch, runs, tracked, logs>>
searchVars == <<searcher, cache>>
accountVars == <<accounts, creates>>
breakerVars == <<breaker, attempts>>
tierVars == <<tiers, gets>>

vars == <<now, items, users, ingestionVars, pager, limiterVars, streakVars, searchVars,
          accountVars,
        breakerVars, tierVars, keyed>>

\* the variables the add-item pipeline does not touch
outsideIngestion == <<pager, limiterVars, streakVars, searchVars, accountVars,
        breakerVars, tierVars, keyed>>

\* the variables the paging client does not touch
outsidePaging == <<now, users, ingestionVars, limiterVars, streakVars, searchVars,
                   accountVars,
        breakerVars, tierVars, keyed>>

\* the variables the rate limiter does not touch
outsideLimiter == <<items, users, ingestionVars, pager, streakVars, searchVars,
                    accountVars,
        breakerVars, tierVars, keyed>>

\* the variables the streak batch does not touch
outsideStreak == <<items, ingestionVars, pager, limiterVars, searchVars, accountVars,
        breakerVars, tierVars, keyed>>

\* the variables the creation of users does not touch
outsideAccounts == <<now, items, users, ingestionVars, pager, limiterVars, streakVars,
                     breakerVars, tierVars, keyed,
                     searchVars>>

\* the variables the circuit breaker does not touch
outsideBreaker == <<items, users, ingestionVars, pager, limiterVars, streakVars,
                    searchVars, accountVars, tierVars, keyed>>

\* the variables the multi-tier cache does not touch
outsideTiers == <<items, users, ingestionVars, pager, limiterVars, streakVars,
                  searchVars, accountVars, breakerVars, keyed>>

\* the variables the generation of cache keys does not touch
outsideKeys == <<now, items, users, ingestionVars, pager, limiterVars, streakVars,
                 searchVars, accountVars, breakerVars, tierVars>>

\* the variables the search does not touch
outsideSearch == <<now, items, users, ingestionVars, pager, limiterVars, streakVars,
                   accountVars,
        breakerVars, tierVars, keyed>>

-----------------------------------------------------------------------------
(* Bounds of the model *)

MaxCalls == 2       \* execute calls entered in one behaviour
MaxTicks == 1       \* clock advances, each of half a rate window
MaxPageItems == 5   \* items stored when a client pages through them
MaxChecks == 4      \* checkLimit calls in one behaviour
MaxRandom == 2      \* distinct values math.random() yields inside the script
MaxMs == 1          \* single milliseconds the clock advances by
MaxWindows == 1     \* whole rate windows the clock advances by
MaxRuns == 2        \* executeBatch runs in one behaviour
MaxHalfDays == 1    \* half days the clock advances by during the batch runs
MaxSearchItems == 2 \* items stored when a client searches
MaxWrapped == 2     \* requests that come in through a rate-limit wrapper
MaxSearchCalls == 3 \* execute calls of a searching client
MaxRanked == 3      \* items stored when the ranking of a page is looked at
MaxCreates == 2     \* create calls of one caller of the user repository
MaxAttempts == 7    \* execute calls made through the circuit breaker
MaxBreakerTicks == 3 \* half timeouts the clock advances by beside the breaker
MaxGets == 4        \* get calls made on the multi-tier cache
MaxTtlTicks == 3    \* half TTLs the clock advances by beside the multi-tier cache

-----------------------------------------------------------------------------
(* Strings *)

Digits == {"0", "1", "2", "3", "4", "5", "6", "7", "8", "9"}
Whitespace == {" "}

IsDigit(ch) == ch \in Digits

\* String.prototype.trim().length === 0
IsBlank(s) == \A i \in 1..Len(s) : s[i] \in Whitespace

Present(opt) == opt # {}
ValueOf(opt) == CHOOSE v \in opt : TRUE

-----------------------------------------------------------------------------
(* AddItemUseCase: constants and input validation *)

RATE_LIMIT == 10
RATE_WINDOW_MS == 60000
TITLE_MAX == 500
AUTHOR_MAX == 200

ItemType == {"BOOK", "PAPER", "ARTICLE"}

\* /^(97[89])?\d{9}[\dX]$/
IsbnRegex(s) ==
    \/ /\ Len(s) = 10
       /\ \A i \in 1..9 : IsDigit(s[i])
       /\ (IsDigit(s[10]) \/ s[10] = "X")
    \/ /\ Len(s) = 13
       /\ s[1] = "9" /\ s[2] = "7" /\ s[3] \in {"8", "9"}
       /\ \A i \in 4..12 : IsDigit(s[i])
       /\ (IsDigit(s[13]) \/ s[13] = "X")

\* /^10\.\d{4,}\/[^\s]+$/
DoiRegex(s) ==
    /\ Len(s) >= 3
    /\ s[1] = "1" /\ s[2] = "0" /\ s[3] = "."
    /\ \E k \in 8..Len(s) :
          /\ \A i \in 4..(k - 1) : IsDigit(s[i])
          /\ s[k] = "/"
          /\ k < Len(s)
          /\ \A i \in (k + 1)..Len(s) : s[i] \notin Whitespace

\* z.string().url(): the strings new URL() accepts.  Of the strings used as
\* inputs here, exactly those with a scheme and a host.
UrlOk(s) ==
    \E k \in 1..Len(s) :
        /\ k > 1 /\ k + 2 < Len(s)
        /\ s[k] = ":" /\ s[k + 1] = "/" /\ s[k + 2] = "/"
        /\ \A i \in 1..Len(s) : s[i] \notin Whitespace

\* a schema that lets any ISBN and DOI string through
SchemaWithoutFormatChecks(r) ==
    /\ Len(r.title) >= 1 /\ Len(r.title) <= TITLE_MAX
    /\ r.type \in ItemType

\* AddItemDTOSchema.parse succeeds
AddItemDTOSchema(r) ==
    /\ Len(r.title) >= 1 /\ Len(r.title) <= TITLE_MAX
    /\ r.type \in ItemType
    /\ Present(r.author) => Len(ValueOf(r.author)) <= AUTHOR_MAX
    /\ Present(r.url) => UrlOk(ValueOf(r.url))
    /\ Present(r.isbn) => IsbnRegex(ValueOf(r.isbn))
    /\ Present(r.doi) => DoiRegex(ValueOf(r.doi))

\* Item constructor: validateTitle (the rating is never set by execute)
ItemCtorOk(title) == ~IsBlank(title) /\ Len(title) <= TITLE_MAX

-----------------------------------------------------------------------------
(* The add-item requests the calls draw from *)

KnownUser == "u1"
UnknownUser == "u2"

TitleBook == <<"B", "o", "o", "k">>
Isbn13 == <<"9", "7", "8", "0", "1", "2", "3", "4", "5", "6", "7", "8", "9">>
IsbnBad == <<"i", "n", "v", "a", "l", "i", "d", "-", "i", "s", "b", "n">>
Doi1 == <<"1", "0", ".", "1", "2", "3", "4", "/", "x">>
DoiBad == <<"i", "n", "v", "a", "l", "i", "d", "-", "d", "o", "i">>
Url1 == <<"h", "t", "t", "p", "s", ":", "/", "/", "x", ".", "i", "o">>

Req(u, t, ty, isbn, doi, url) ==
    [userId |-> u, title |-> t, type |-> ty, author |-> {},
     url |-> url, isbn |-> isbn, doi |-> doi]

\* the inputs of execute; the one with an ISBN carries a DOI too and the one
\* with a DOI a URL too, so that scheduleMetadataFetch has to choose
Requests ==
    [plain   |-> Req(KnownUser, TitleBook, "BOOK", {}, {}, {}),
     isbn    |-> Req(KnownUser, TitleBook, "BOOK", {Isbn13}, {Doi1}, {}),
     doi     |-> Req(KnownUser, TitleBook, "PAPER", {}, {Doi1}, {Url1}),
     url     |-> Req(KnownUser, TitleBook, "ARTICLE", {}, {}, {Url1}),
     ghost   |-> Req(UnknownUser, TitleBook, "BOOK", {}, {}, {}),
     blank   |-> Req(KnownUser, <<" ">>, "BOOK", {}, {}, {}),
     empty   |-> Req(KnownUser, <<>>, "BOOK", {}, {}, {}),
     long    |-> Req(KnownUser, [i \in 1..(TITLE_MAX + 1) |-> "a"], "BOOK", {}, {}, {}),
     badisbn |-> Req(KnownUser, TitleBook, "BOOK", {IsbnBad}, {}, {}),
     baddoi  |-> Req(KnownUser, TitleBook, "PAPER", {}, {DoiBad}, {})]

RequestNames == DOMAIN Requests


-----------------------------------------------------------------------------
(* MockUserRepository: stats *)

StartTime == RATE_WINDOW_MS
HalfWindow == RATE_WINDOW_MS \div 2

\* typeof currentValue === 'number' for a field of UserStats
NumericStat(k) == k # "lastReadDate"

\* the stats key execute builds: `${type.toLowerCase()}Count`
TypeCountKey(type) ==
    CASE type = "BOOK" -> "bookCount"
      [] type = "PAPER" -> "paperCount"
      [] type = "ARTICLE" -> "articleCount"

\* the increments object execute passes to incrementStats
StatIncrements(type) ==
    [k \in {"totalItems", TypeCountKey(type)} |-> 1]

\* props.stats?.<field> ?? dflt
StatField(p, k, dflt) == IF k \in DOMAIN p THEN p[k] ELSE dflt

\* User constructor: only the six UserStats fields are kept
UserStatsCtor(p) ==
    [totalItems    |-> StatField(p, "totalItems", 0),
     booksCount    |-> StatField(p, "booksCount", 0),
     papersCount   |-> StatField(p, "papersCount", 0),
     articlesCount |-> StatField(p, "articlesCount", 0),
     streakDays    |-> StatField(p, "streakDays", 0),
     lastReadDate  |-> StatField(p, "lastReadDate", {})]

\* MockUserRepository.updateStats: new User({... stats: {...user.stats, ...stats}})
updateStats(stats, patch) ==
    UserStatsCtor([k \in DOMAIN stats \cup DOMAIN patch |->
                      IF k \in DOMAIN patch THEN patch[k] ELSE stats[k]])

\* MockUserRepository.incrementStats: the loop over Object.entries(increments),
\* then updateStats.  The awaits in between are on already-resolved promises,
\* so the read, the loop and the write run in one turn of the event loop.
incrementStats(stats, increments) ==
    LET updatedStats ==
            [k \in DOMAIN stats \cup DOMAIN increments |->
                IF k \in DOMAIN increments
                THEN IF k \in DOMAIN stats /\ NumericStat(k)
                     THEN stats[k] + increments[k]
                     ELSE increments[k]
                ELSE stats[k]]
    IN updateStats(stats, updatedStats)

-----------------------------------------------------------------------------
(* MockItemRepository *)

\* a count that leaves out the items created exactly windowMs ago
countAfterWindowStart(userId, windowMs) ==
    Cardinality({i \in items : i.userId = userId /\ i.addedAt > now - windowMs})

\* countByUserInTimeWindow
countByUserInTimeWindow(userId, windowMs) ==
    Cardinality({i \in items : i.userId = userId /\ i.addedAt >= now - windowMs})

\* transaction(fn) is `return await fn()`: whatever fn wrote before it threw
\* stays written
transaction(itemsBefore, itemsWritten) == itemsWritten

\* the Item that create() stores for a request
NewItem(id, r) ==
    [id |-> id, userId |-> r.userId, type |-> r.type, title |-> r.title,
     author |-> r.author, notes |-> {}, readDate |-> {}, addedAt |-> now]

ItemIds == {i.id : i \in items}

-----------------------------------------------------------------------------
(* RateLimiter: sliding window over a Redis sorted set *)

\* RATE_LIMITS.PHONE_OTP
PHONE_OTP ==
    [windowMs |-> 3600000, maxRequests |-> 3,
     prefix |-> <<"r", "a", "t", "e", "_", "l", "i", "m", "i", "t", ":", "o", "t", "p", ":">>]

\* keyGenerator(identifier)
KeyOf(options, identifier) == options.prefix \o identifier

Phone1 == <<"+", "1">>

\* `rate_limit:${identifier}`, the key when no keyGenerator is given
DefaultKey(identifier) ==
    <<"r", "a", "t", "e", "_", "l", "i", "m", "i", "t", ":">> \o identifier

LimiterKeys == {KeyOf(PHONE_OTP, Phone1), DefaultKey(Phone1)}

Checks == 1..MaxChecks

NoResult == [allowed |-> FALSE, remaining |-> 0, resetTime |-> 0, totalHits |-> 0]

\* a call of the limiter; order is its place among the calls that have
\* returned, 0 while it has not; wrapper is the middleware the call was made
\* by, outcome what the middleware did with the request, and retryAfter the
\* number of seconds it told a denied client to wait
IdleCheck == [pc |-> "idle", key |-> <<>>, options |-> PHONE_OTP, now |-> 0,
              result |-> NoResult, order |-> 0, wrapper |-> "none", outcome |-> "none",
              retryAfter |-> {}]

\* the place the call that returns now takes among the calls
NextOrder == Cardinality({c \in Checks : checks[c].order # 0}) + 1

\* math.ceil(window / 1000)
CeilSeconds(ms) == (ms + 999) \div 1000

\* the key as the script finds it: gone once its expiry time has passed
LiveMembers(key) ==
    IF expiry[key] # 0 /\ now >= expiry[key] THEN {} ELSE zsets[key]

\* a removal that leaves the member whose score is max
AfterRemovalBelow(members, max) == {m \in members : ~(0 <= m.score /\ m.score < max)}

\* ZREMRANGEBYSCORE key 0 max: what is left
AfterRemoval(members, max) == {m \in members : ~(0 <= m.score /\ m.score <= max)}

-----------------------------------------------------------------------------
(* AddItemUseCase.execute *)

\* Requests are served concurrently: each worker runs one call at a time and
\* takes the next one when its call has returned or thrown.
Calls == {"w1", "w2"}

IdleCall == [pc |-> "idle", req |-> "none", item |-> 0,
             error |-> "none", trace |-> <<>>]

Finished(c) == calls[c].pc \in {"done", "rejected"}

\* a scheduleMetadataFetch that looks at the DOI before the ISBN
MetadataJobDoiFirst(itemId, r) ==
    IF Present(r.doi) THEN {[itemId |-> itemId, type |-> "doi", value |-> ValueOf(r.doi)]}
    ELSE IF Present(r.isbn) THEN {[itemId |-> itemId, type |-> "isbn", value |-> ValueOf(r.isbn)]}
    ELSE IF Present(r.url) THEN {[itemId |-> itemId, type |-> "url", value |-> ValueOf(r.url)]}
    ELSE {}

\* scheduleMetadataFetch: the job for an input, if any (isbn, else doi, else url)
MetadataJob(itemId, r) ==
    IF Present(r.isbn) THEN {[itemId |-> itemId, type |-> "isbn", value |-> ValueOf(r.isbn)]}
    ELSE IF Present(r.doi) THEN {[itemId |-> itemId, type |-> "doi", value |-> ValueOf(r.doi)]}
    ELSE IF Present(r.url) THEN {[itemId |-> itemId, type |-> "url", value |-> ValueOf(r.url)]}
    ELSE {}

\* an execute that emits the event before it writes the audit entry
StepAfterEmitFirst(step, r) ==
    CASE step = "transaction" -> IF MetadataJob(0, r) # {} THEN "schedule" ELSE "emit"
      [] step = "schedule" -> "emit"
      [] step = "emit" -> "audit"
      [] step = "audit" -> "done"

\* the order of the awaited steps of execute after the transaction
StepAfter(step, r) ==
    CASE step = "transaction" -> IF MetadataJob(0, r) # {} THEN "schedule" ELSE "audit"
      [] step = "schedule" -> "audit"
      [] step = "audit" -> "emit"
      [] step = "emit" -> "done"

Reject(c, err, step) ==
    calls' = [calls EXCEPT ![c].pc = "rejected", ![c].error = err,
                           ![c].trace = Append(@, step)]

\* execute is entered: validateInput, then the count query is issued
Start(c, rn) ==
    /\ calls[c].pc = "idle" \/ Finished(c)
    /\ started < MaxCalls
    /\ started' = started + 1
    /\ IF AddItemDTOSchema(Requests[rn])
       THEN calls' = [calls EXCEPT ![c] = [IdleCall EXCEPT !.pc = "rateLimit", !.req = rn,
                                                          !.trace = <<"validate">>]]
       ELSE calls' = [calls EXCEPT ![c] = [IdleCall EXCEPT !.pc = "rejected", !.req = rn,
                                                          !.error = "ValidationError",
                                                          !.trace = <<"validate">>]]
    /\ UNCHANGED <<now, items, users, nextId, jobs, events, audits>>
    /\ UNCHANGED outsideIngestion

\* countByUserInTimeWindow resolves; the limit is tested; the transaction and
\* its create() are entered
RateLimitCheck(c) ==
    /\ calls[c].pc = "rateLimit"
    /\ LET recentCount == countByUserInTimeWindow(Requests[calls[c].req].userId,
                                                  RATE_WINDOW_MS)
       IN IF recentCount >= RATE_LIMIT
          THEN calls' = [calls EXCEPT ![c].pc = "rejected",
                                      ![c].error = "RateLimitError",
                                      ![c].trace = Append(@, "rateLimit")]
          ELSE calls' = [calls EXCEPT ![c].pc = "transaction",
                                      ![c].trace = Append(@, "rateLimit")]
    /\ UNCHANGED <<now, items, users, nextId, started, jobs, events, audits>>
    /\ UNCHANGED outsideIngestion

\* create()'s latency timer fires: the item is built and stored, the stats are
\* incremented, and the transaction resolves or rejects
Transaction(c) ==
    /\ calls[c].pc = "transaction"
    /\ LET r == Requests[calls[c].req]
           item == NewItem(nextId, r)
       IN IF ~ItemCtorOk(r.title)
          THEN /\ Reject(c, "Error", "transaction")
               /\ UNCHANGED <<items, users, nextId>>
          ELSE IF r.userId \notin DOMAIN users
          THEN /\ items' = transaction(items, items \cup {item})
               /\ nextId' = nextId + 1
               /\ calls' = [calls EXCEPT ![c].pc = "rejected", ![c].error = "Error",
                                         ![c].item = item.id,
                                         ![c].trace = Append(@, "transaction")]
               /\ UNCHANGED users
          ELSE /\ items' = transaction(items, items \cup {item})
               /\ nextId' = nextId + 1
               /\ users' = [users EXCEPT ![r.userId] =
                               incrementStats(@, StatIncrements(r.type))]
               /\ calls' = [calls EXCEPT ![c].pc = StepAfter("transaction", r),
                                         ![c].item = item.id,
                                         ![c].trace = Append(@, "transaction")]
    /\ UNCHANGED <<now, started, jobs, events, audits>>
    /\ UNCHANGED outsideIngestion

\* jobScheduler.schedule('fetch-metadata', ...) resolves or rejects
Schedule(c) ==
    /\ calls[c].pc = "schedule"
    /\ LET r == Requests[calls[c].req] IN
       \/ /\ jobs' = jobs (+) SetToBag(MetadataJob(calls[c].item, r))
          /\ calls' = [calls EXCEPT ![c].pc = StepAfter("schedule", r),
                                    ![c].trace = Append(@, "schedule")]
       \/ /\ Reject(c, "SchedulerError", "schedule")
          /\ UNCHANGED jobs
    /\ UNCHANGED <<now, items, users, nextId, started, events, audits>>
    /\ UNCHANGED outsideIngestion

\* auditLogger.log('item.created', ...) resolves or rejects
Audit(c) ==
    /\ calls[c].pc = "audit"
    /\ LET r == Requests[calls[c].req] IN
       \/ /\ audits' = audits (+) SetToBag({[action |-> "item.created", userId |-> r.userId,
                                             itemId |-> calls[c].item, type |-> r.type]})
          /\ calls' = [calls EXCEPT ![c].pc = StepAfter("audit", r),
                                    ![c].trace = Append(@, "audit")]
       \/ /\ Reject(c, "AuditError", "audit")
          /\ UNCHANGED audits
    /\ UNCHANGED <<now, items, users, nextId, started, jobs, events>>
    /\ UNCHANGED outsideIngestion

\* eventEmitter.emit('item.added', ...) resolves or rejects (the payload's
\* timestamp, which nothing reads, is left out)
Emit(c) ==
    /\ calls[c].pc = "emit"
    /\ LET r == Requests[calls[c].req] IN
       \/ /\ events' = events (+) SetToBag({[event |-> "item.added", userId |-> r.userId,
                                             itemId |-> calls[c].item, type |-> r.type]})
          /\ calls' = [calls EXCEPT ![c].pc = StepAfter("emit", r),
                                    ![c].trace = Append(@, "emit")]
       \/ /\ Reject(c, "EmitError", "emit")
          /\ UNCHANGED events
    /\ UNCHANGED <<now, items, users, nextId, started, jobs, audits>>
    /\ UNCHANGED outsideIngestion

\* time passes
Tick ==
    /\ now < StartTime + MaxTicks * HalfWindow
    /\ now' = now + HalfWindow
    /\ UNCHANGED <<items, users, nextId, calls, started, jobs, events, audits>>
    /\ UNCHANGED outsideIngestion

\* Redis is empty and no checkLimit call has been made
LimiterIdle ==
    /\ zsets = [k \in LimiterKeys |-> {}]
    /\ expiry = [k \in LimiterKeys |-> 0]
    /\ checks = [c \in Checks |-> IdleCheck]

\* no execute call has been made
IngestionIdle ==
    /\ nextId = 1
    /\ calls = [c \in Calls |-> IdleCall]
    /\ started = 0
    /\ jobs = EmptyBag
    /\ events = EmptyBag
    /\ audits = EmptyBag

IdleBatch == [pc |-> "idle", userIds |-> {}, yesterday |-> 0, today |-> 0,
              usersWithReads |-> {}, queries |-> 0]

\* no streak batch has run
StreakIdle ==
    /\ batch = IdleBatch
    /\ runs = <<>>
    /\ tracked = EmptyBag
    /\ logs = EmptyBag

IdleSearcher ==
    [pc |-> "idle", backend |-> "mock",
     input |-> [userId |-> KnownUser, query |-> <<>>, sortBy |-> "relevance", limit |-> 0],
     cursor |-> {}, rows |-> <<>>, response |-> {}, pages |-> <<>>, requests |-> 0,
     error |-> "none", trace |-> <<>>, known |-> {}]

\* the callers of MockUserRepository.create
Creators == {"k1", "k2"}

\* no user is stored and no create call has been made
AccountsIdle ==
    /\ accounts = {}
    /\ creates = [c \in Creators |-> [pc |-> "idle", user |-> {}, existing |-> {},
                                      error |-> "none", made |-> 0]]

\* the callers of CircuitBreaker.execute
Callers == {"b1", "b2"}

\* new CircuitBreaker(): CLOSED, no failure counted; outcomes lists the
\* results of the wrapped calls in the order they came in
NewBreaker ==
    [state |-> "CLOSED", failures |-> 0, lastFailureTime |-> 0, outcomes |-> <<>>]

\* a fresh breaker, and no execute call has been made
BreakerIdle ==
    /\ breaker = NewBreaker
    /\ attempts = [c \in Callers |-> [pc |-> "idle", error |-> "none", made |-> 0]]

\* the callers of MultiTierCache.get
Getters == {"g1", "g2"}

\* new MultiTierCache() over an empty Redis, and no get call has been made
TiersIdle ==
    /\ tiers = [l1 |-> {}, l2 |-> {}]
    /\ gets = [c \in Getters |-> [pc |-> "idle", key |-> {}, value |-> {}, made |-> 0]]

\* no cache key has been generated
NoKeys == [pc |-> "idle", requests |-> <<>>, inputs |-> <<>>, keys |-> <<>>]

\* no search has been made and the cache is empty
SearchIdle ==
    /\ searcher = IdleSearcher
    /\ cache = {}

\* no client is paging
IdlePager == [pc |-> "idle", userId |-> KnownUser, limit |-> 0, cursor |-> {},
              pages |-> <<>>, error |-> "none"]

\* the items a user already has when the calls begin, with the stats that
\* belong to them
SeedItem(id) ==
    [id |-> id, userId |-> KnownUser, type |-> "BOOK", title |-> TitleBook,
     author |-> {}, notes |-> {}, readDate |-> {}, addedAt |-> 0]

SeedCounts == {0, RATE_LIMIT - 1}

Init ==
    /\ now = StartTime
    /\ \E n \in SeedCounts :
          /\ items = {SeedItem(id) : id \in 1..n}
          /\ users = [u \in {KnownUser} |->
                         UserStatsCtor([totalItems |-> n, booksCount |-> n])]
          /\ nextId = n + 1
    /\ calls = [c \in Calls |-> IdleCall]
    /\ started = 0
    /\ jobs = EmptyBag
    /\ events = EmptyBag
    /\ audits = EmptyBag
    /\ pager = IdlePager
    /\ LimiterIdle
    /\ StreakIdle
    /\ SearchIdle
    /\ AccountsIdle
    /\ BreakerIdle
    /\ TiersIdle
    /\ keyed = NoKeys

Next ==
    \/ \E c \in Calls, rn \in RequestNames : Start(c, rn)
    \/ \E c \in Calls : RateLimitCheck(c)
    \/ \E c \in Calls : Transaction(c)
    \/ \E c \in Calls : Schedule(c)
    \/ \E c \in Calls : Audit(c)
    \/ \E c \in Calls : Emit(c)
    \/ Tick

Spec == Init /\ [][Next]_vars

-----------------------------------------------------------------------------
(* Properties of the ingestion pipeline *)

UserIds == {KnownUser, UnknownUser}

ItemsOf(u) == {i \in items : i.userId = u}

LastStep(c) == calls[c].trace[Len(calls[c].trace)]

\* the call's transaction resolved: the item and the increment are committed
Committed(c) ==
    /\ calls[c].item # 0
    /\ ~(calls[c].pc = "rejected" /\ LastStep(c) = "transaction")

IndexOf(seq, x) == CHOOSE i \in 1..Len(seq) : seq[i] = x

InSeq(seq, x) == \E i \in 1..Len(seq) : seq[i] = x

IsPrefix(p, q) == Len(p) <= Len(q) /\ \A i \in 1..Len(p) : p[i] = q[i]

EventOf(c) ==
    [event |-> "item.added", userId |-> Requests[calls[c].req].userId,
     itemId |-> calls[c].item, type |-> Requests[calls[c].req].type]

AuditOf(c) ==
    [action |-> "item.created", userId |-> Requests[calls[c].req].userId,
     itemId |-> calls[c].item, type |-> Requests[calls[c].req].type]

\* C1: under concurrent execute calls of one user the rate limit holds: the
\* user never has more than RATE_LIMIT items created inside the trailing
\* window.
C1_WindowNeverExceedsLimit ==
    \A u \in UserIds : countByUserInTimeWindow(u, RATE_WINDOW_MS) <= RATE_LIMIT

\* C2: a call whose stat increment failed after its item was created leaves
\* no item behind: the item it created is not in the repository.
C2_FailedTransactionLeavesNoItem ==
    \A c \in Calls :
        (calls[c].pc = "rejected" /\ LastStep(c) = "transaction")
            => calls[c].item \notin ItemIds

\* C7: the stats of a user agree with the stored items: totalItems is the
\* number of the user's items and each per-type counter is the number of the
\* user's items of that type.
C7_StatsMatchItems ==
    \A u \in DOMAIN users :
        /\ users[u].totalItems = Cardinality(ItemsOf(u))
        /\ users[u].booksCount = Cardinality({i \in ItemsOf(u) : i.type = "BOOK"})
        /\ users[u].papersCount = Cardinality({i \in ItemsOf(u) : i.type = "PAPER"})
        /\ users[u].articlesCount = Cardinality({i \in ItemsOf(u) : i.type = "ARTICLE"})

\* C8: a call whose transaction failed has no event, no audit entry and no
\* job; a call that has ended after its transaction committed has exactly one
\* item.added event and exactly one item.created audit entry.
C8_EventAndAuditFollowCommit ==
    \A c \in Calls :
        /\ (calls[c].req # "none" /\ ~Committed(c)) =>
               /\ ~InSeq(calls[c].trace, "schedule")
               /\ ~InSeq(calls[c].trace, "audit")
               /\ ~InSeq(calls[c].trace, "emit")
        /\ (Finished(c) /\ Committed(c)) =>
               /\ CopiesIn(EventOf(c), events) = 1
               /\ CopiesIn(AuditOf(c), audits) = 1

C9_Order(r) ==
    IF MetadataJob(0, r) # {}
    THEN <<"validate", "rateLimit", "transaction", "schedule", "audit", "emit">>
    ELSE <<"validate", "rateLimit", "transaction", "audit", "emit">>

InvalidRequests == {"empty", "long", "badisbn", "baddoi"}

\* C10: a call on an invalid input rejects with ValidationError in its first
\* step, and that step leaves the items, the stats, the jobs, the events and
\* the audit entries as they were; the call takes no further step.
C10_InvalidInputRejectedFirst ==
    [][\A c \in Calls :
          (calls'[c] # calls[c] /\ calls'[c].req \in InvalidRequests) =>
              /\ calls'[c].pc = "rejected"
              /\ calls'[c].error = "ValidationError"
              /\ calls'[c].trace = <<"validate">>
              /\ calls'[c].item = 0
              /\ UNCHANGED <<items, users, nextId, jobs, events, audits>>]_vars

C10_Witness ==
    \E c \in Calls :
        /\ calls[c].req = "badisbn"
        /\ calls[c].error = "ValidationError"
        /\ \E d \in Calls : calls[d].req = "baddoi" /\ calls[d].pc = "rejected"

\* C11: when the count query of a call resolves and the user has RATE_LIMIT
\* or more items created in the trailing window, the call rejects with
\* RateLimitError and that step writes nothing (no item, no stat increment,
\* no job, no event, no audit entry); with fewer such items the call goes on
\* to its transaction.
C11_RateLimitRejectsBeforeWrite ==
    [][\A c \in Calls :
          (calls[c].pc = "rateLimit" /\ calls'[c] # calls[c]) =>
              LET u == Requests[calls[c].req].userId
                  recent == {i \in items : i.userId = u /\
                                            i.addedAt >= now - RATE_WINDOW_MS}
              IN IF Cardinality(recent) >= RATE_LIMIT
                 THEN /\ calls'[c].pc = "rejected"
                      /\ calls'[c].error = "RateLimitError"
                      /\ calls'[c].item = 0
                      /\ UNCHANGED <<items, users, nextId, jobs, events, audits>>
                 ELSE calls'[c].pc = "transaction"]_vars

\* a call was rejected at the limit while another went on to create its item
C11_Witness ==
    \E c, d \in Calls :
        /\ calls[c].error = "RateLimitError" /\ calls[c].item = 0
        /\ calls[d].item # 0
        /\ Cardinality(ItemsOf(KnownUser)) = RATE_LIMIT

\* the tag and value the job of an input must carry: the ISBN when there is
\* one, else the DOI, else the URL
C12_Expected(itemId, r) ==
    IF Present(r.isbn) THEN {[itemId |-> itemId, type |-> "isbn", value |-> ValueOf(r.isbn)]}
    ELSE IF Present(r.doi) THEN {[itemId |-> itemId, type |-> "doi", value |-> ValueOf(r.doi)]}
    ELSE IF Present(r.url) THEN {[itemId |-> itemId, type |-> "url", value |-> ValueOf(r.url)]}
    ELSE {}

\* C12: no job is ever scheduled twice and no item ever has two jobs; a call
\* that has got past its scheduling step has exactly one job for its item
\* when the input carries an ISBN, DOI or URL, tagged isbn if an ISBN is
\* present, else doi, else url, with that field's value, and no job when the
\* input carries none of the three; before the transaction has committed the
\* call has no job.
C12_OneMetadataJob ==
    /\ \A j \in BagToSet(jobs) :
          /\ CopiesIn(j, jobs) = 1
          /\ \A k \in BagToSet(jobs) : k.itemId = j.itemId => k = j
    /\ \A c \in Calls :
          calls[c].req # "none" =>
              LET mine == {j \in BagToSet(jobs) : j.itemId = calls[c].item}
                  past == \/ InSeq(calls[c].trace, "audit")
                          \/ calls[c].pc = "audit"
              IN /\ past => mine = C12_Expected(calls[c].item, Requests[calls[c].req])
                 /\ ~Committed(c) => mine = {}

\* a call on an input with ISBN and DOI has scheduled its job, and so has a
\* call on an input with DOI and URL
C12_Witness ==
    \E c, d \in Calls :
        /\ calls[c].req = "isbn" /\ InSeq(calls[c].trace, "audit")
        /\ calls[d].req = "doi" /\ InSeq(calls[d].trace, "audit")
        /\ Cardinality(BagToSet(jobs)) = 2

\* C13: a failure of the audit logger after the transaction has committed is
\* not fatal: the item stays stored, and the call ends returning the item
\* with its item.added event emitted.
C13_AuditFailureNonFatal ==
    \A c \in Calls :
        (Committed(c) /\ Finished(c) /\ LastStep(c) = "audit") =>
            /\ calls[c].item \in ItemIds
            /\ calls[c].pc = "done"
            /\ CopiesIn(EventOf(c), events) = 1

-----------------------------------------------------------------------------
(* MockItemRepository.findByUserId: cursor pagination *)

PAGE_LIMIT_MAX == 100

\* the comparator of the sort: addedAt descending, then id ascending
SortsBefore(a, b) ==
    \/ a.addedAt > b.addedAt
    \/ a.addedAt = b.addedAt /\ a.id < b.id

\* Array.prototype.sort with that comparator
RECURSIVE SortItems(_)
SortItems(S) ==
    IF S = {} THEN <<>>
    ELSE LET first == CHOOSE x \in S : \A y \in S \ {x} : SortsBefore(x, y)
         IN <<first>> \o SortItems(S \ {first})

\* userItems.findIndex(item => item.id === cursor), with 0 for "not found"
FindIndex(seq, id) ==
    IF \E i \in 1..Len(seq) : seq[i].id = id
    THEN CHOOSE i \in 1..Len(seq) :
            seq[i].id = id /\ \A j \in 1..(i - 1) : seq[j].id # id
    ELSE 0

\* a page that starts at the cursor's item instead of after it
StartAtCursor(cursorIndex) == cursorIndex - 1

\* startIndex = cursorIndex + 1, as the number of items to skip
StartAfterCursor(cursorIndex) == cursorIndex

\* userItems.slice(startIndex, startIndex + limit)
Slice(seq, startIndex, limit) ==
    LET last == IF startIndex + limit < Len(seq) THEN startIndex + limit ELSE Len(seq)
    IN [i \in 1..(IF last > startIndex THEN last - startIndex ELSE 0) |-> seq[startIndex + i]]

findByUserId(userId, limit, cursor) ==
    IF limit <= 0 \/ limit > PAGE_LIMIT_MAX
    THEN [error |-> "Limit must be between 1 and 100"]
    ELSE LET userItems == SortItems({i \in items : i.userId = userId})
             cursorIndex == IF Present(cursor) THEN FindIndex(userItems, ValueOf(cursor)) ELSE 0
         IN IF Present(cursor) /\ cursorIndex = 0
            THEN [error |-> "Invalid cursor"]
            ELSE LET startIndex == IF Present(cursor) THEN StartAfterCursor(cursorIndex) ELSE 0
                     pageItems == Slice(userItems, startIndex, limit)
                     nextCursor ==
                         IF Len(pageItems) = limit /\ startIndex + limit < Len(userItems)
                         THEN {pageItems[Len(pageItems)].id}
                         ELSE {}
                 IN [error |-> "none",
                     items |-> [i \in 1..Len(pageItems) |-> pageItems[i].id],
                     nextCursor |-> nextCursor,
                     hasNextPage |-> nextCursor # {}]

\* the page sizes a client asks for
PageLimits == {0, 1, 2, 3, PAGE_LIMIT_MAX, PAGE_LIMIT_MAX + 1}

\* the stored items: item i was added at time i, or at time 0 together with
\* others, and belongs to either user
PageItem(id, addedAt, userId) ==
    [id |-> id, userId |-> userId, type |-> "BOOK", title |-> TitleBook,
     author |-> {}, notes |-> {}, readDate |-> {}, addedAt |-> addedAt]

\* the client asks for its next page: without cursor first, then with the
\* nextCursor of the page before
FindPage ==
    /\ pager.pc = "paging"
    /\ LET result == findByUserId(pager.userId, pager.limit, pager.cursor)
       IN IF result.error # "none"
          THEN pager' = [pager EXCEPT !.pc = "failed", !.error = result.error]
          ELSE pager' = [pager EXCEPT
                            !.pages = Append(@, result),
                            !.cursor = result.nextCursor,
                            !.pc = IF result.nextCursor = {} THEN "done" ELSE "paging"]
    /\ UNCHANGED items
    /\ UNCHANGED outsidePaging

InitPage ==
    /\ now = StartTime
    /\ \E n \in 0..MaxPageItems :
       \E together \in SUBSET (1..n) :
       \E others \in SUBSET (1..n) :
          items = {PageItem(id, IF id \in together THEN 0 ELSE id,
                            IF id \in others THEN UnknownUser ELSE KnownUser) :
                      id \in 1..n}
    /\ users = [u \in UserIds |-> UserStatsCtor([totalItems |-> 0])]
    /\ IngestionIdle
    /\ StreakIdle
    /\ SearchIdle
    /\ \E limit \in PageLimits :
          pager = [IdlePager EXCEPT !.pc = "paging", !.limit = limit]
    /\ LimiterIdle
    /\ AccountsIdle
    /\ BreakerIdle
    /\ TiersIdle
    /\ keyed = NoKeys

NextPage == FindPage

SpecPage == InitPage /\ [][NextPage]_vars

-----------------------------------------------------------------------------
(* Properties of findByUserId pagination *)

RECURSIVE PagedIds(_)
\* the item ids of the pages, one page after the other
PagedIds(pages) ==
    IF pages = <<>> THEN <<>>
    ELSE pages[1].items \o PagedIds(Tail(pages))

ItemById(id) == CHOOSE i \in items : i.id = id

\* C6: a client that pages through a user's items with a limit in [1,100],
\* without cursor first and then with each returned nextCursor until it is
\* null, has received each of the user's items exactly once, most recently
\* added first and smaller id first among items added at the same time; a page
\* has hasNextPage exactly when its nextCursor is non-null, never more than
\* limit items, and the last page has nextCursor null.
C6_PagesCoverItemsOnceInOrder ==
    LET ids == PagedIds(pager.pages)
        mine == {i.id : i \in ItemsOf(pager.userId)}
    IN /\ \A k \in 1..Len(pager.pages) :
             /\ pager.pages[k].hasNextPage <=> pager.pages[k].nextCursor # {}
             /\ Len(pager.pages[k].items) <= pager.limit
             /\ k < Len(pager.pages) => pager.pages[k].nextCursor # {}
       /\ \A k \in 1..Len(ids) : ids[k] \in mine
       /\ \A k, l \in 1..Len(ids) :
             k < l =>
                \/ ItemById(ids[k]).addedAt > ItemById(ids[l]).addedAt
                \/ /\ ItemById(ids[k]).addedAt = ItemById(ids[l]).addedAt
                   /\ ids[k] < ids[l]
       /\ pager.pc = "done" =>
             /\ {ids[k] : k \in 1..Len(ids)} = mine
             /\ Len(ids) = Cardinality(mine)
             /\ pager.pages[Len(pager.pages)].nextCursor = {}
       /\ (pager.limit >= 1 /\ pager.limit <= PAGE_LIMIT_MAX) => pager.pc # "failed"

\* five items added one after the other, limit 2: pages [5,4], [3,2], [1]
C6_Witness ==
    /\ pager.pc = "done"
    /\ pager.limit = 2
    /\ Cardinality(ItemsOf(pager.userId)) = 5
    /\ pager.pages =
          <<[error |-> "none", items |-> <<5, 4>>, nextCursor |-> {4}, hasNextPage |-> TRUE],
            [error |-> "none", items |-> <<3, 2>>, nextCursor |-> {2}, hasNextPage |-> TRUE],
            [error |-> "none", items |-> <<1>>, nextCursor |-> {}, hasNextPage |-> FALSE]>>

-----------------------------------------------------------------------------
(* RateLimiter.checkLimit *)

\* checkLimit up to its await: the key is generated, Date.now() is read and
\* the script is sent
IssueCheck(c, identifier) ==
    /\ checks[c].pc = "idle"
    /\ IF c = 1 THEN TRUE ELSE checks[c - 1].pc # "idle"
    /\ checks' = [checks EXCEPT ![c] = [IdleCheck EXCEPT
                                          !.pc = "issued",
                                          !.key = KeyOf(PHONE_OTP, identifier),
                                          !.now = now]]
    /\ UNCHANGED <<now, zsets, expiry>>
    /\ UNCHANGED outsideLimiter

\* Redis runs the script, in one piece, and checkLimit returns its result.
\* math.random() yields a pseudo-random number; Redis up to version 6 seeds
\* the generator identically for every script run, so two runs can draw the
\* same number.
EvalCheck(c, random) ==
    /\ checks[c].pc = "issued"
    /\ LET key == checks[c].key
           window == checks[c].options.windowMs
           limit == checks[c].options.maxRequests
           callNow == checks[c].now
           kept == AfterRemoval(LiveMembers(key), callNow - window)
           current == Cardinality(kept)
           entry == [member |-> <<callNow, random>>, score |-> callNow]
       IN IF current < limit
          THEN /\ zsets' = [zsets EXCEPT ![key] =
                               {m \in kept : m.member # entry.member} \cup {entry}]
               /\ expiry' = [expiry EXCEPT ![key] = now + CeilSeconds(window) * 1000]
               /\ checks' = [checks EXCEPT
                                ![c].pc = "returned",
                                ![c].order = NextOrder,
                                ![c].result = [allowed |-> TRUE,
                                               remaining |-> limit - current - 1,
                                               resetTime |-> callNow + window,
                                               totalHits |-> current + 1]]
          ELSE /\ zsets' = [zsets EXCEPT ![key] = kept]
               /\ expiry' = [expiry EXCEPT ![key] =
                                IF expiry[key] # 0 /\ now >= expiry[key] THEN 0 ELSE @]
               /\ checks' = [checks EXCEPT
                                ![c].pc = "returned",
                                ![c].order = NextOrder,
                                ![c].result = [allowed |-> FALSE,
                                               remaining |-> 0,
                                               resetTime |-> callNow + window,
                                               totalHits |-> current]]
    /\ UNCHANGED now
    /\ UNCHANGED outsideLimiter

\* reset(identifier, keyGenerator): the key is deleted, the one of the
\* keyGenerator when one is passed and `rate_limit:${identifier}` when not
Reset(c, identifier, keyGenerator) ==
    /\ checks[c].pc = "idle"
    /\ IF c = 1 THEN TRUE ELSE checks[c - 1].pc # "idle"
    /\ LET key == IF Present(keyGenerator)
                  THEN KeyOf(ValueOf(keyGenerator), identifier)
                  ELSE DefaultKey(identifier)
       IN /\ zsets' = [zsets EXCEPT ![key] = {}]
          /\ expiry' = [expiry EXCEPT ![key] = 0]
          /\ checks' = [checks EXCEPT ![c] = [IdleCheck EXCEPT
                                                !.pc = "reset",
                                                !.key = key,
                                                !.now = now,
                                                !.order = NextOrder]]
    /\ UNCHANGED now
    /\ UNCHANGED outsideLimiter

\* a millisecond passes
TickMs ==
    /\ (now - StartTime) % PHONE_OTP.windowMs < MaxMs
    /\ now' = now + 1
    /\ UNCHANGED <<zsets, expiry, checks>>
    /\ UNCHANGED outsideLimiter

\* a whole window passes
TickWindow ==
    /\ (now - StartTime) \div PHONE_OTP.windowMs < MaxWindows
    /\ now' = now + PHONE_OTP.windowMs
    /\ UNCHANGED <<zsets, expiry, checks>>
    /\ UNCHANGED outsideLimiter

InitRateLimiter ==
    /\ now = StartTime
    /\ items = {}
    /\ users = [u \in {KnownUser} |-> UserStatsCtor([totalItems |-> 0])]
    /\ IngestionIdle
    /\ pager = IdlePager
    /\ LimiterIdle
    /\ StreakIdle
    /\ SearchIdle
    /\ AccountsIdle
    /\ BreakerIdle
    /\ TiersIdle
    /\ keyed = NoKeys

NextRateLimiter ==
    \/ \E c \in Checks : IssueCheck(c, Phone1)
    \/ \E c \in Checks, random \in 1..MaxRandom : EvalCheck(c, random)
    \/ \E c \in Checks, keyGenerator \in {{}, {PHONE_OTP}} : Reset(c, Phone1, keyGenerator)
    \/ TickMs
    \/ TickWindow

SpecRateLimiter == InitRateLimiter /\ [][NextRateLimiter]_vars

-----------------------------------------------------------------------------
(* The rate-limit wrappers: createNextJSRateLimitMiddleware, withRateLimit,
   the tRPC createRateLimitMiddleware and the createRateLimitMiddleware of
   RateLimiter.ts ("express"), without getUserId *)

Wrappers == {"nextjs", "withRateLimit", "trpc", "express"}

\* a request enters a wrapper: the Next.js middleware lets a request on one
\* of its skipPaths through at once; otherwise checkLimit is called
Request(c, wrapper, skipPath) ==
    /\ c <= MaxWrapped
    /\ checks[c].pc = "idle"
    /\ IF c = 1 THEN TRUE ELSE checks[c - 1].pc # "idle"
    /\ IF wrapper = "nextjs" /\ skipPath
       THEN checks' = [checks EXCEPT ![c] = [IdleCheck EXCEPT
                                               !.pc = "skipped",
                                               !.wrapper = wrapper,
                                               !.outcome = "next"]]
       ELSE checks' = [checks EXCEPT ![c] = [IdleCheck EXCEPT
                                               !.pc = "issued",
                                               !.key = KeyOf(PHONE_OTP, Phone1),
                                               !.now = now,
                                               !.wrapper = wrapper]]
    /\ UNCHANGED <<now, zsets, expiry>>
    /\ UNCHANGED outsideLimiter

\* redis.eval rejects: checkLimit rejects with the error of the backend
FailCheck(c) ==
    /\ checks[c].pc = "issued"
    /\ checks' = [checks EXCEPT ![c].pc = "failed", ![c].order = NextOrder]
    /\ UNCHANGED <<now, zsets, expiry>>
    /\ UNCHANGED outsideLimiter

\* Math.ceil((result.resetTime - Date.now()) / 1000)
RetryAfter(result) == CeilSeconds(result.resetTime - now)

\* a wrapper that passes a denied request on as well
RespondPassingOn(c) ==
    /\ checks[c].pc \in {"returned", "failed"}
    /\ checks[c].wrapper \in Wrappers
    /\ checks[c].outcome = "none"
    /\ checks' = [checks EXCEPT ![c].outcome = "next"]
    /\ UNCHANGED <<now, zsets, expiry>>
    /\ UNCHANGED outsideLimiter

\* the wrapper goes on after its await of checkLimit: a denied request is
\* answered with 429 (TOO_MANY_REQUESTS in tRPC, a thrown RateLimitError in
\* the middleware of RateLimiter.ts) that carries retryAfter, an allowed one
\* is passed on (NextResponse.next(), handler(request), opts.next(), the
\* headers returned to the route); the error of a failed checkLimit is
\* caught, and the request passed on, by the Next.js middleware, and is
\* thrown again by the other three
Respond(c) ==
    /\ checks[c].pc \in {"returned", "failed"}
    /\ checks[c].wrapper \in Wrappers
    /\ checks[c].outcome = "none"
    /\ checks' = [checks EXCEPT
                     ![c].outcome =
                         IF checks[c].pc = "returned"
                         THEN IF checks[c].result.allowed THEN "next"
                              ELSE "tooManyRequests"
                         ELSE IF checks[c].wrapper = "nextjs" THEN "next" ELSE "thrown",
                     ![c].retryAfter =
                         IF checks[c].pc = "returned" /\ ~checks[c].result.allowed
                         THEN {RetryAfter(checks[c].result)}
                         ELSE {}]
    /\ UNCHANGED <<now, zsets, expiry>>
    /\ UNCHANGED outsideLimiter

\* the key of the identifier holds no hit, or as many as the policy allows,
\* all made at the start
InitMiddleware ==
    /\ now = StartTime
    /\ items = {}
    /\ users = [u \in {KnownUser} |-> UserStatsCtor([totalItems |-> 0])]
    /\ IngestionIdle
    /\ pager = IdlePager
    /\ StreakIdle
    /\ SearchIdle
    /\ checks = [c \in Checks |-> IdleCheck]
    /\ \E n \in {0, PHONE_OTP.maxRequests} :
          /\ zsets = [k \in LimiterKeys |->
                         IF k = KeyOf(PHONE_OTP, Phone1)
                         THEN {[member |-> <<StartTime, MaxChecks + i>>, score |-> StartTime] :
                                  i \in 1..n}
                         ELSE {}]
          /\ expiry = [k \in LimiterKeys |->
                          IF k = KeyOf(PHONE_OTP, Phone1) /\ n > 0
                          THEN StartTime + CeilSeconds(PHONE_OTP.windowMs) * 1000
                          ELSE 0]
    /\ AccountsIdle
    /\ BreakerIdle
    /\ TiersIdle
    /\ keyed = NoKeys

\* the script draws a different number in each of its runs
NextMiddleware ==
    \/ \E c \in Checks, wrapper \in Wrappers : Request(c, wrapper, FALSE)
    \/ \E c \in Checks : Request(c, "nextjs", TRUE)
    \/ \E c \in Checks : EvalCheck(c, c)
    \/ \E c \in Checks : FailCheck(c)
    \/ \E c \in Checks : Respond(c)

SpecMiddleware == InitMiddleware /\ [][NextMiddleware]_vars

-----------------------------------------------------------------------------
(* Properties of the rate limiter *)

Returned == {c \in Checks : checks[c].pc = "returned"}

Allowed == {c \in Returned : checks[c].result.allowed}

Min(a, b) == IF a < b THEN a ELSE b

\* the calls that have returned were all made, and answered, inside the
\* window that ends now, and no reset was made
InOneWindow ==
    /\ \A c \in Returned : now - checks[c].now < PHONE_OTP.windowMs
    /\ \A c \in Checks : checks[c].pc # "reset"

\* C3: of k checkLimit calls on one key inside one window, exactly
\* min(k, maxRequests) are allowed, and no two allowed calls have acted on the
\* same observed count (their totalHits differ).
C3_AtomicCheckAndIncrement ==
    InOneWindow =>
        /\ Cardinality(Allowed) = Min(Cardinality(Returned), PHONE_OTP.maxRequests)
        /\ \A c, d \in Allowed :
              c # d => checks[c].result.totalHits # checks[d].result.totalHits

\* C14: when a checkLimit call returns, it is allowed exactly when the
\* entries of its key that are left after the removal of the old ones are
\* fewer than maxRequests; an allowed call has recorded exactly one new entry
\* and reports totalHits = previous count + 1 and remaining = maxRequests -
\* totalHits; a denied call has recorded nothing and reports remaining = 0
\* and totalHits = current count.  Hence no key ever holds more than
\* maxRequests entries.
C14_CheckLimitCounts ==
    /\ [](\A k \in LimiterKeys : Cardinality(zsets[k]) <= PHONE_OTP.maxRequests)
    /\ [][\A c \in Checks :
             (checks[c].pc = "issued" /\ checks'[c].pc = "returned") =>
                 LET key == checks[c].key
                     limit == checks[c].options.maxRequests
                     before == {m \in LiveMembers(key) :
                                   m.score > checks[c].now - checks[c].options.windowMs}
                     result == checks'[c].result
                 IN IF Cardinality(before) < limit
                    THEN /\ result.allowed
                         /\ before \subseteq zsets'[key]
                         /\ Cardinality(zsets'[key]) = Cardinality(before) + 1
                         /\ result.totalHits = Cardinality(before) + 1
                         /\ result.remaining = limit - result.totalHits
                    ELSE /\ ~result.allowed
                         /\ zsets'[key] = before
                         /\ result.remaining = 0
                         /\ result.totalHits = Cardinality(before)]_vars

\* C15: the checkLimit call that is made after a reset of its identifier has
\* returned, and is the next call to return after it, sees no earlier hit: it
\* is allowed with totalHits = 1, whether or not the reset was given the
\* keyGenerator the hits were recorded under.
C15_ResetClearsHits ==
    \A r, c \in Checks :
        (/\ checks[r].pc = "reset"
         /\ r < c
         /\ checks[c].pc = "returned"
         /\ checks[c].order = checks[r].order + 1)
            => /\ checks[c].result.allowed
               /\ checks[c].result.totalHits = 1

\* C16: a request whose checkLimit call failed in the backend is never
\* passed on by its wrapper as if it had been allowed: the wrapper answers
\* with a rejection or throws the error to its caller.
C16_BackendFailureNeverAllows ==
    \A c \in Checks :
        (checks[c].pc = "failed" /\ checks[c].outcome # "none")
            => checks[c].outcome \in {"tooManyRequests", "thrown"}

-----------------------------------------------------------------------------
(* UpdateReadingStreakUseCase.executeBatch, over the tables its queries name *)

DAY_MS == 86400000

Milestones == {7, 30, 100, 365}

getMilestoneName(days) ==
    CASE days = 7 -> "week_warrior"
      [] days = 30 -> "monthly_master"
      [] days = 100 -> "century_scholar"
      [] days = 365 -> "yearly_champion"
      [] OTHER -> "unknown"

\* new Date() with setUTCHours(0, 0, 0, 0)
getTodayUTC == (now \div DAY_MS) * DAY_MS

\* the same, one UTC day earlier
getYesterdayUTC == getTodayUTC - DAY_MS

\* a lookup query that also takes the reads of today's first millisecond
getUsersWithReadsThroughToday(userIds, yesterday, today) ==
    {[userId |-> u, currentStreak |-> users[u].streakDays] :
        u \in {v \in userIds \cap DOMAIN users :
                  \E i \in items :
                      /\ i.userId = v
                      /\ Present(i.readDate)
                      /\ ValueOf(i.readDate) >= yesterday
                      /\ ValueOf(i.readDate) <= today}}

\* the rows of the lookup query: SELECT DISTINCT i.userId, COALESCE(u.streakDays, 0)
\* FROM items i JOIN users u ... WHERE i.userId IN (...) AND i.readDate >= ?
\* AND i.readDate < ?
getUsersWithReadsYesterday(userIds, yesterday, today) ==
    {[userId |-> u, currentStreak |-> users[u].streakDays] :
        u \in {v \in userIds \cap DOMAIN users :
                  \E i \in items :
                      /\ i.userId = v
                      /\ Present(i.readDate)
                      /\ ValueOf(i.readDate) >= yesterday
                      /\ ValueOf(i.readDate) < today}}

\* the users table after the update query: UPDATE users SET streakDays = CASE
\* WHEN id = ? THEN COALESCE(streakDays, 0) + 1 ... WHEN id = ? THEN 0 ... END,
\* lastReadDate = ?, updatedAt = ? WHERE id IN (...)
batchUpdateStreaks(allUserIds, userIdsWithReads, today) ==
    [u \in DOMAIN users |->
        IF u \in allUserIds
        THEN [users[u] EXCEPT
                 !.streakDays = IF u \in userIdsWithReads THEN @ + 1 ELSE 0,
                 !.lastReadDate = {today}]
        ELSE users[u]]

\* a logMilestoneAchievements that tracks every streak from a week on
MilestoneEventsFromAWeek(usersWithReads) ==
    {[event |-> "streak_milestone_achieved", userId |-> r.userId,
      streakDays |-> r.currentStreak + 1,
      milestone |-> getMilestoneName(r.currentStreak + 1)] :
        r \in {q \in usersWithReads : q.currentStreak + 1 >= 7}}

\* what logMilestoneAchievements tracks
MilestoneEvents(usersWithReads) ==
    {[event |-> "streak_milestone_achieved", userId |-> r.userId,
      streakDays |-> r.currentStreak + 1,
      milestone |-> getMilestoneName(r.currentStreak + 1)] :
        r \in {q \in usersWithReads : q.currentStreak + 1 \in Milestones}}

\* what logMilestoneAchievements logs
MilestoneLogs(usersWithReads) ==
    {[level |-> "info", message |-> "Streak milestone achieved", userId |-> e.userId,
      streakDays |-> e.streakDays, milestone |-> e.milestone] :
        e \in MilestoneEvents(usersWithReads)}

ErrorLog == [level |-> "error", message |-> "Failed to update reading streaks"]

\* the batch runs start at noon of the fourth UTC day
StreakStart == 3 * DAY_MS + DAY_MS \div 2

\* executeBatch is called: an empty list returns at once; otherwise the two
\* day boundaries are computed and the lookup query is sent
StartBatch(userIds) ==
    /\ batch.pc \in {"idle", "done", "failed"}
    /\ Len(runs) < MaxRuns
    /\ IF userIds = {}
       THEN /\ batch' = [IdleBatch EXCEPT !.pc = "done"]
            /\ runs' = Append(runs, [today |-> getTodayUTC, userIds |-> {},
                                      outcome |-> "done", queries |-> 0,
                                      streaks |-> [u \in {} |-> 0]])
       ELSE /\ batch' = [IdleBatch EXCEPT !.pc = "lookup", !.userIds = userIds,
                                          !.yesterday = getYesterdayUTC,
                                          !.today = getTodayUTC]
            /\ UNCHANGED runs
    /\ UNCHANGED <<now, users, tracked, logs>>
    /\ UNCHANGED outsideStreak

\* a batch that throws the error of a rejected query without logging it
FailBatchUnlogged ==
    /\ batch' = [batch EXCEPT !.pc = "failed", !.queries = @ + 1]
    /\ runs' = Append(runs, [today |-> batch.today, userIds |-> batch.userIds,
                              outcome |-> "failed", queries |-> batch.queries + 1,
                              streaks |-> [u \in batch.userIds \cap DOMAIN users |->
                                              users[u].streakDays]])
    /\ UNCHANGED <<now, users, tracked, logs>>

\* a query of the batch rejects: the error is logged and thrown
FailBatch ==
    /\ batch' = [batch EXCEPT !.pc = "failed", !.queries = @ + 1]
    /\ logs' = logs (+) SetToBag({ErrorLog})
    /\ runs' = Append(runs, [today |-> batch.today, userIds |-> batch.userIds,
                              outcome |-> "failed", queries |-> batch.queries + 1,
                              streaks |-> [u \in batch.userIds \cap DOMAIN users |->
                                              users[u].streakDays]])
    /\ UNCHANGED <<now, users, tracked>>

\* the lookup query resolves or rejects
Lookup ==
    /\ batch.pc = "lookup"
    /\ \/ /\ batch' = [batch EXCEPT
                          !.pc = "update",
                          !.queries = @ + 1,
                          !.usersWithReads =
                              getUsersWithReadsYesterday(batch.userIds, batch.yesterday,
                                                         batch.today)]
          /\ UNCHANGED <<now, users, runs, tracked, logs>>
       \/ FailBatch
    /\ UNCHANGED outsideStreak

\* an update that sends one query for each given user
UpdatePerUser ==
    /\ batch.pc = "update"
    /\ \/ /\ users' = batchUpdateStreaks(batch.userIds,
                                          {r.userId : r \in batch.usersWithReads},
                                          batch.today)
          /\ batch' = [batch EXCEPT !.pc = "milestones",
                                    !.queries = @ + Cardinality(batch.userIds)]
          /\ UNCHANGED <<now, runs, tracked, logs>>
       \/ FailBatch
    /\ UNCHANGED outsideStreak

\* the update query resolves or rejects
Update ==
    /\ batch.pc = "update"
    /\ \/ /\ users' = batchUpdateStreaks(batch.userIds,
                                          {r.userId : r \in batch.usersWithReads},
                                          batch.today)
          /\ batch' = [batch EXCEPT !.pc = "milestones", !.queries = @ + 1]
          /\ UNCHANGED <<now, runs, tracked, logs>>
       \/ FailBatch
    /\ UNCHANGED outsideStreak

\* logMilestoneAchievements, then the completion log entry
LogMilestones ==
    /\ batch.pc = "milestones"
    /\ tracked' = tracked (+) SetToBag(MilestoneEvents(batch.usersWithReads))
    /\ logs' = logs (+) SetToBag(MilestoneLogs(batch.usersWithReads))
                     (+) SetToBag({[level |-> "info",
                                    message |-> "Streak update completed",
                                    totalUsers |-> Cardinality(batch.userIds),
                                    usersWithReads |-> Cardinality(batch.usersWithReads)]})
    /\ batch' = [batch EXCEPT !.pc = "done"]
    /\ runs' = Append(runs, [today |-> batch.today, userIds |-> batch.userIds,
                              outcome |-> "done", queries |-> batch.queries,
                              streaks |-> [u \in batch.userIds \cap DOMAIN users |->
                                              users[u].streakDays]])
    /\ UNCHANGED <<now, users>>
    /\ UNCHANGED outsideStreak

\* half a day passes
TickHalfDay ==
    /\ now < StreakStart + MaxHalfDays * (DAY_MS \div 2)
    /\ now' = now + DAY_MS \div 2
    /\ UNCHANGED <<users, batch, runs, tracked, logs>>
    /\ UNCHANGED outsideStreak

\* the streaks the users start with
StartStreaks == {0, 5, 6}

\* what a user has read: nothing at all, an item without read date, or an
\* item read two days ago, at the first or the last millisecond of yesterday,
\* or at the first millisecond of today
ReadDates ==
    {{}, {DAY_MS}, {2 * DAY_MS}, {3 * DAY_MS - 1}, {3 * DAY_MS}}

ReadItem(id, userId, readDate) ==
    [id |-> id, userId |-> userId, type |-> "BOOK", title |-> TitleBook,
     author |-> {}, notes |-> {}, readDate |-> readDate, addedAt |-> 0]

InitStreak ==
    /\ now = StreakStart
    /\ \E streak1, streak2 \in StartStreaks :
          users = (KnownUser :> UserStatsCtor([streakDays |-> streak1])) @@
                  (UnknownUser :> UserStatsCtor([streakDays |-> streak2]))
    /\ \E has1, has2 \in BOOLEAN :
       \E read1, read2 \in ReadDates :
          items = (IF has1 THEN {ReadItem(1, KnownUser, read1)} ELSE {}) \cup
                  (IF has2 THEN {ReadItem(2, UnknownUser, read2)} ELSE {})
    /\ IngestionIdle
    /\ pager = IdlePager
    /\ LimiterIdle
    /\ StreakIdle
    /\ SearchIdle
    /\ AccountsIdle
    /\ BreakerIdle
    /\ TiersIdle
    /\ keyed = NoKeys

NextStreak ==
    \/ \E userIds \in SUBSET UserIds : StartBatch(userIds)
    \/ Lookup
    \/ Update
    \/ LogMilestones
    \/ TickHalfDay

SpecStreak == InitStreak /\ [][NextStreak]_vars

\* the batch runs over users who stand one day before a milestone, or at the
\* first one, and who read at the last millisecond of yesterday or have no
\* item
InitMilestones ==
    /\ now = StreakStart
    /\ \E streak1, streak2 \in {6, 7, 29, 99, 364} :
          users = (KnownUser :> UserStatsCtor([streakDays |-> streak1])) @@
                  (UnknownUser :> UserStatsCtor([streakDays |-> streak2]))
    /\ \E has1, has2 \in BOOLEAN :
          items = (IF has1 THEN {ReadItem(1, KnownUser, {3 * DAY_MS - 1})} ELSE {}) \cup
                  (IF has2 THEN {ReadItem(2, UnknownUser, {3 * DAY_MS - 1})} ELSE {})
    /\ IngestionIdle
    /\ pager = IdlePager
    /\ LimiterIdle
    /\ StreakIdle
    /\ SearchIdle
    /\ AccountsIdle
    /\ BreakerIdle
    /\ TiersIdle
    /\ keyed = NoKeys

SpecMilestones == InitMilestones /\ [][NextStreak]_vars

-----------------------------------------------------------------------------
(* Properties of the streak batch *)

\* C4: of two completed executeBatch runs for the same UTC day and the same
\* users, the later one leaves every user's streakDays at the value the
\* earlier one left (the read data never changes between the runs).
C4_BatchIdempotentPerDay ==
    \A k, l \in 1..Len(runs) :
        (/\ k < l
         /\ runs[k].outcome = "done" /\ runs[l].outcome = "done"
         /\ runs[k].today = runs[l].today
         /\ runs[k].userIds = runs[l].userIds)
            => runs[l].streaks = runs[k].streaks

\* the user has an item whose readDate lies in the UTC day before the day
\* the running batch computed as today
ReadYesterday(u) ==
    \E i \in items :
        /\ i.userId = u
        /\ i.readDate # {}
        /\ \A d \in i.readDate : batch.today - DAY_MS <= d /\ d < batch.today

\* C23: when the update query of executeBatch(userIds) resolves, each given
\* user with at least one item whose readDate lies in [yesterday 00:00 UTC,
\* today 00:00 UTC) has streakDays one higher than before and lastReadDate
\* = today 00:00 UTC, every other given user has streakDays = 0, and the
\* users that were not given are unchanged.
C23_StreakUpdate ==
    [][(batch.pc = "update" /\ batch'.pc = "milestones") =>
          \A u \in DOMAIN users :
             IF u \notin batch.userIds THEN users'[u] = users[u]
             ELSE IF ReadYesterday(u)
                  THEN /\ users'[u].streakDays = users[u].streakDays + 1
                       /\ users'[u].lastReadDate = {batch.today}
                  ELSE users'[u].streakDays = 0]_vars

\* a batch for both users has updated the streaks: one user read at the last
\* millisecond of yesterday and stands at 7, the other read at the first
\* millisecond of today and was reset
C23_Witness ==
    /\ batch.pc = "milestones"
    /\ batch.userIds = UserIds
    /\ \E i \in items : i.userId = KnownUser /\ i.readDate = {batch.today - 1}
    /\ \E i \in items : i.userId = UnknownUser /\ i.readDate = {batch.today}
    /\ users[KnownUser].streakDays = 7
    /\ users[KnownUser].lastReadDate = {batch.today}
    /\ users[UnknownUser].streakDays = 0

C25_RepositoryErrorAborts ==
    [][/\ (batch.pc \in {"lookup", "update"} /\ batch'.pc = "failed") =>
            /\ users' = users
            /\ tracked' = tracked
            /\ logs' = logs (+) SetToBag({[level |-> "error",
                                           message |-> "Failed to update reading streaks"]})
            /\ batch'.queries = IF batch.pc = "lookup" THEN 1 ELSE 2
            /\ runs' = Append(runs, runs'[Len(runs')])
            /\ runs'[Len(runs')].outcome = "failed"
       /\ (batch.pc = "failed" /\ batch' # batch) =>
            /\ batch'.queries = 0
            /\ tracked' = tracked
            /\ logs' = logs]_vars

\* the update query of a batch failed for a user who would have reached a
\* milestone: the error is logged and nothing was tracked
C25_Witness ==
    /\ batch.pc = "failed"
    /\ batch.queries = 2
    /\ \E r \in batch.usersWithReads : r.currentStreak + 1 = 7
    /\ tracked = EmptyBag
    /\ BagToSet(logs) = {ErrorLog}

\* C26: a run of executeBatch that completes has sent exactly two queries
\* when userIds is not empty, the lookup and the update, for one user as for
\* two, and for an empty list the call returns with no query sent, no log
\* entry written and nothing else changed.
C26_TwoQueriesPerBatch ==
    /\ [](\A k \in 1..Len(runs) :
            runs[k].outcome = "done" =>
                runs[k].queries = IF runs[k].userIds = {} THEN 0 ELSE 2)
    /\ [][(Len(runs') = Len(runs) + 1 /\ runs'[Len(runs')].userIds = {}) =>
              /\ runs'[Len(runs')].outcome = "done"
              /\ logs' = logs /\ tracked' = tracked /\ users' = users]_vars

\* a batch for two users has completed with two queries, and a call with an
\* empty list has returned
C26_Witness ==
    /\ \E k \in 1..Len(runs) :
          runs[k].userIds = UserIds /\ runs[k].outcome = "done" /\ runs[k].queries = 2
    /\ \E k \in 1..Len(runs) : runs[k].userIds = {} /\ runs[k].queries = 0

-----------------------------------------------------------------------------
(* SearchItemsUseCase: the text of the search query *)

\* String.prototype.toLowerCase
toLowerCase(str) ==
    LET UpperCase == <<"A", "B", "C", "D", "E", "F", "G", "H", "I", "J", "K", "L", "M",
                       "N", "O", "P", "Q", "R", "S", "T", "U", "V", "W", "X", "Y", "Z">>
        LowerCase == <<"a", "b", "c", "d", "e", "f", "g", "h", "i", "j", "k", "l", "m",
                       "n", "o", "p", "q", "r", "s", "t", "u", "v", "w", "x", "y", "z">>
    IN [i \in 1..Len(str) |->
           IF \E k \in 1..Len(UpperCase) : UpperCase[k] = str[i]
           THEN LowerCase[CHOOSE k \in 1..Len(UpperCase) : UpperCase[k] = str[i]]
           ELSE str[i]]

\* String.prototype.includes
includes(str, part) ==
    \E i \in 0..(Len(str) - Len(part)) : \A j \in 1..Len(part) : str[i + j] = part[j]

\* String.prototype.startsWith
startsWith(str, part) ==
    Len(part) <= Len(str) /\ \A j \in 1..Len(part) : str[j] = part[j]

\* an optional string, or '' when it is absent
OrEmpty(opt) == IF Present(opt) THEN ValueOf(opt) ELSE <<>>

SortBy == {"relevance", "date_added", "read_date"}

\* the pieces of text buildSearchQuery puts together, with $2 and $3 filled
\* in: the text up to the WHERE conditions; conditions[0]; the separator of
\* conditions.join; searchCondition; the cursor conditions of the DATE_ADDED
\* and READ_DATE sorts; the text between the conditions and the ORDER BY
\* clause; the three orderBy texts; the text up to the number of the LIMIT
\* parameter; the end of the text
SqlText ==
    [
     select |-> <<"\n", " ", " ", " ", " ", " ", " ", "S", "E", "L", "E", "C", "T", " ", "i",
        "d", ",", " ", "t", "i", "t", "l", "e", ",", " ", "a", "u", "t", "h", "o", "r", ",",
        " ", "t", "y", "p", "e", ",", " ", "a", "d", "d", "e", "d", "_", "a", "t", ",", " ",
        "r", "e", "a", "d", "_", "d", "a", "t", "e", ",", " ", "n", "o", "t", "e", "s", ",",
        " ", "m", "e", "t", "a", "d", "a", "t", "a", ",", "\n", " ", " ", " ", " ", " ", " ",
        " ", " ", " ", " ", " ", " ", " ", "s", "i", "m", "i", "l", "a", "r", "i", "t", "y",
        "(", "t", "i", "t", "l", "e", ",", " ", "$", "2", ")", " ", "a", "s", " ", "t", "i",
        "t", "l", "e", "_", "s", "i", "m", "i", "l", "a", "r", "i", "t", "y", ",", "\n", " ",
        " ", " ", " ", " ", " ", " ", " ", " ", " ", " ", " ", " ", "s", "i", "m", "i", "l",
        "a", "r", "i", "t", "y", "(", "C", "O", "A", "L", "E", "S", "C", "E", "(", "a", "u",
        "t", "h", "o", "r", ",", " ", "'", "'", ")", ",", " ", "$", "2", ")", " ", "a", "s",
        " ", "a", "u", "t", "h", "o", "r", "_", "s", "i", "m", "i", "l", "a", "r", "i", "t",
        "y", "\n", " ", " ", " ", " ", " ", " ", "F", "R", "O", "M", " ", "i", "t", "e", "m",
        "s", " ", "\n", " ", " ", " ", " ", " ", " ", "W", "H", "E", "R", "E", " ">>,
     userCondition |-> <<"u", "s", "e", "r", "_", "i", "d", " ", "=", " ", "$", "1">>,
     and |-> <<" ", "A", "N", "D", " ">>,
     searchCondition |-> <<"(", "\n", " ", " ", " ", " ", " ", " ", "s", "i", "m", "i", "l",
        "a", "r", "i", "t", "y", "(", "t", "i", "t", "l", "e", ",", " ", "$", "2", ")", " ",
        ">", " ", "0", ".", "1", " ", "O", "R", "\n", " ", " ", " ", " ", " ", " ", "s", "i",
        "m", "i", "l", "a", "r", "i", "t", "y", "(", "C", "O", "A", "L", "E", "S", "C", "E",
        "(", "a", "u", "t", "h", "o", "r", ",", " ", "'", "'", ")", ",", " ", "$", "2", ")",
        " ", ">", " ", "0", ".", "1", " ", "O", "R", "\n", " ", " ", " ", " ", " ", " ", "t",
        "i", "t", "l", "e", " ", "I", "L", "I", "K", "E", " ", "$", "3", " ", "O", "R", "\n",
        " ", " ", " ", " ", " ", " ", "C", "O", "A", "L", "E", "S", "C", "E", "(", "a", "u",
        "t", "h", "o", "r", ",", " ", "'", "'", ")", " ", "I", "L", "I", "K", "E", " ", "$",
        "3", " ", "O", "R", "\n", " ", " ", " ", " ", " ", " ", "C", "O", "A", "L", "E", "S",
        "C", "E", "(", "n", "o", "t", "e", "s", ",", " ", "'", "'", ")", " ", "I", "L", "I",
        "K", "E", " ", "$", "3", "\n", " ", " ", " ", " ", ")">>,
     cursorDateAdded |-> <<"a", "d", "d", "e", "d", "_", "a", "t", " ", "<", " ", "(", "S",
        "E", "L", "E", "C", "T", " ", "a", "d", "d", "e", "d", "_", "a", "t", " ", "F", "R",
        "O", "M", " ", "i", "t", "e", "m", "s", " ", "W", "H", "E", "R", "E", " ", "i", "d",
        " ", "=", " ", "$", "4", ")">>,
     cursorReadDate |-> <<"r", "e", "a", "d", "_", "d", "a", "t", "e", " ", "<", " ", "(", "S",
        "E", "L", "E", "C", "T", " ", "r", "e", "a", "d", "_", "d", "a", "t", "e", " ", "F",
        "R", "O", "M", " ", "i", "t", "e", "m", "s", " ", "W", "H", "E", "R", "E", " ", "i",
        "d", " ", "=", " ", "$", "4", ")">>,
     beforeOrderBy |-> <<"\n", " ", " ", " ", " ", " ", " ">>,
     orderDateAdded |-> <<"O", "R", "D", "E", "R", " ", "B", "Y", " ", "a", "d", "d", "e", "d",
        "_", "a", "t", " ", "D", "E", "S", "C", ",", " ", "i", "d", " ", "A", "S", "C">>,
     orderReadDate |-> <<"O", "R", "D", "E", "R", " ", "B", "Y", " ", "r", "e", "a", "d", "_",
        "d", "a", "t", "e", " ", "D", "E", "S", "C", " ", "N", "U", "L", "L", "S", " ", "L",
        "A", "S", "T", ",", " ", "i", "d", " ", "A", "S", "C">>,
     orderRelevance |-> <<"O", "R", "D", "E", "R", " ", "B", "Y", " ", "(", "\n", " ", " ",
        " ", " ", " ", " ", " ", " ", " ", " ", "s", "i", "m", "i", "l", "a", "r", "i", "t",
        "y", "(", "t", "i", "t", "l", "e", ",", " ", "$", "2", ")", " ", "*", " ", "2", " ",
        "+", "\n", " ", " ", " ", " ", " ", " ", " ", " ", " ", " ", "s", "i", "m", "i", "l",
        "a", "r", "i", "t", "y", "(", "C", "O", "A", "L", "E", "S", "C", "E", "(", "a", "u",
        "t", "h", "o", "r", ",", " ", "'", "'", ")", ",", " ", "$", "2", ")", " ", "*", " ",
        "1", ".", "5", " ", "+", "\n", " ", " ", " ", " ", " ", " ", " ", " ", " ", " ", "C",
        "A", "S", "E", " ", "W", "H", "E", "N", " ", "t", "i", "t", "l", "e", " ", "I", "L",
        "I", "K", "E", " ", "$", "3", " ", "T", "H", "E", "N", " ", "1", " ", "E", "L", "S",
        "E", " ", "0", " ", "E", "N", "D", " ", "+", "\n", " ", " ", " ", " ", " ", " ", " ",
        " ", " ", " ", "C", "A", "S", "E", " ", "W", "H", "E", "N", " ", "C", "O", "A", "L",
        "E", "S", "C", "E", "(", "a", "u", "t", "h", "o", "r", ",", " ", "'", "'", ")", " ",
        "I", "L", "I", "K", "E", " ", "$", "3", " ", "T", "H", "E", "N", " ", "0", ".", "5",
        " ", "E", "L", "S", "E", " ", "0", " ", "E", "N", "D", "\n", " ", " ", " ", " ", " ",
        " ", " ", " ", ")", " ", "D", "E", "S", "C", ",", " ", "a", "d", "d", "e", "d", "_",
        "a", "t", " ", "D", "E", "S", "C">>,
     limit |-> <<"\n", " ", " ", " ", " ", " ", " ", "L", "I", "M", "I", "T", " ", "$">>,
     end |-> <<"\n", " ", " ", " ", " ">>
    ]

\* buildSearchQuery for an input without type, date and tag filters
buildSearchQuery(input, cursor) ==
    LET cursorCondition ==
            IF Present(cursor) /\ input.sortBy = "date_added"
            THEN SqlText.and \o SqlText.cursorDateAdded
            ELSE IF Present(cursor) /\ input.sortBy = "read_date"
            THEN SqlText.and \o SqlText.cursorReadDate
            ELSE <<>>
        paramIndex == IF Present(cursor) THEN <<"5">> ELSE <<"4">>
        orderBy == CASE input.sortBy = "date_added" -> SqlText.orderDateAdded
                     [] input.sortBy = "read_date" -> SqlText.orderReadDate
                     [] OTHER -> SqlText.orderRelevance
    IN SqlText.select \o SqlText.userCondition \o SqlText.and \o SqlText.searchCondition \o
       cursorCondition \o SqlText.beforeOrderBy \o orderBy \o
       SqlText.limit \o paramIndex \o SqlText.end

-----------------------------------------------------------------------------
(* MockItemRepository: searchWithRawQuery and executeRawQuery *)

\* a fraction, as <<numerator, denominator>>
Ratio(n, d) == <<n, d>>

RatioLess(a, b) == a[1] * b[2] < b[1] * a[2]

\* getTrigrams: the three-character windows of the text between two spaces on
\* either side
getTrigrams(text) ==
    LET padded == <<" ", " ">> \o text \o <<" ", " ">>
    IN [i \in 1..(Len(padded) - 2) |-> <<padded[i], padded[i + 1], padded[i + 2]>>]

\* calculateSimilarity
calculateSimilarity(text, query) ==
    IF text = <<>> \/ query = <<>> THEN Ratio(0, 1)
    ELSE LET textLower == toLowerCase(text)
             queryLower == toLowerCase(query)
             textTrigrams == getTrigrams(textLower)
             queryTrigrams == getTrigrams(queryLower)
             intersection ==
                 {i \in 1..Len(textTrigrams) :
                     \E k \in 1..Len(queryTrigrams) : queryTrigrams[k] = textTrigrams[i]}
         IN IF textLower = queryLower THEN Ratio(1, 1)
            ELSE IF includes(textLower, queryLower) THEN Ratio(8, 10)
            ELSE IF startsWith(textLower, queryLower) THEN Ratio(6, 10)
            ELSE Ratio(Cardinality(intersection),
                       IF Len(textTrigrams) > Len(queryTrigrams)
                       THEN Len(textTrigrams) ELSE Len(queryTrigrams))

\* Array.from(this.items.values()): the items in the order they were
\* created, which is the order of their ids
RECURSIVE ItemsInOrder(_)
ItemsInOrder(S) ==
    IF S = {} THEN <<>>
    ELSE LET first == CHOOSE x \in S : \A y \in S : x.id <= y.id
         IN <<first>> \o ItemsInOrder(S \ {first})

\* Array.prototype.filter
RECURSIVE FilterSeq(_, _)
FilterSeq(seq, keep) ==
    IF seq = <<>> THEN <<>>
    ELSE (IF seq[1].id \in keep THEN <<seq[1]>> ELSE <<>>) \o FilterSeq(Tail(seq), keep)

\* the row searchWithRawQuery makes of an item
MockRow(item, normalizedQuery) ==
    [id |-> item.id, title |-> item.title, author |-> item.author,
     added_at |-> item.addedAt, read_date |-> item.readDate, notes |-> item.notes,
     title_similarity |-> calculateSimilarity(item.title, normalizedQuery),
     author_similarity |-> calculateSimilarity(OrEmpty(item.author), normalizedQuery)]

\* searchWithRawQuery(userId, query, cursor, limit)
searchWithRawQuery(userId, query, cursor, limit) ==
    LET normalizedQuery == toLowerCase(query)
        matching ==
            {i.id : i \in {j \in items :
                /\ j.userId = userId
                /\ \/ includes(toLowerCase(j.title), normalizedQuery)
                   \/ Present(j.author) /\ includes(toLowerCase(ValueOf(j.author)), normalizedQuery)
                   \/ Present(j.notes) /\ includes(toLowerCase(ValueOf(j.notes)), normalizedQuery)}}
        found == FilterSeq(ItemsInOrder(items), matching)
        results == [i \in 1..Len(found) |-> MockRow(found[i], normalizedQuery)]
        cursorIndex == IF Present(cursor) THEN FindIndex(results, ValueOf(cursor)) ELSE 0
    IN Slice(results, cursorIndex, limit)

\* executeRawQuery for a query that contains COUNT(*): params[0] is the user,
\* params[1] the search text
executeRawQueryCount(userId, searchText) ==
    LET searchQuery == toLowerCase(searchText)
    IN Cardinality({i \in items :
           /\ i.userId = userId
           /\ \/ includes(toLowerCase(i.title), searchQuery)
              \/ Present(i.author) /\ includes(toLowerCase(ValueOf(i.author)), searchQuery)})

-----------------------------------------------------------------------------
(* The search query as a PostgreSQL database with pg_trgm answers it *)

\* the trigram set of a single word: two spaces before it, one after
PgTrigrams(word) ==
    IF word = <<>> THEN {}
    ELSE LET padded == <<" ", " ">> \o toLowerCase(word) \o <<" ">>
         IN {<<padded[i], padded[i + 1], padded[i + 2]>> : i \in 1..(Len(padded) - 2)}

\* similarity(a, b): shared trigrams over all trigrams
similarity(a, b) ==
    LET union == PgTrigrams(a) \cup PgTrigrams(b)
    IN IF union = {} THEN Ratio(0, 1)
       ELSE Ratio(Cardinality(PgTrigrams(a) \cap PgTrigrams(b)), Cardinality(union))

\* value ILIKE '%query%'
ILike(value, query) == includes(toLowerCase(value), toLowerCase(query))

\* searchCondition
SearchCondition(item, query) ==
    \/ 10 * similarity(item.title, query)[1] > similarity(item.title, query)[2]
    \/ 10 * similarity(OrEmpty(item.author), query)[1] >
          similarity(OrEmpty(item.author), query)[2]
    \/ ILike(item.title, query)
    \/ ILike(OrEmpty(item.author), query)
    \/ ILike(OrEmpty(item.notes), query)

\* the cursor condition: a comparison with the value of the subquery, which
\* is NULL, and the comparison not true, when no item has the cursor's id or
\* when either date is NULL
CursorCondition(item, sortBy, cursor) ==
    IF ~Present(cursor) THEN TRUE
    ELSE CASE sortBy = "date_added" ->
                \E c \in items : c.id = ValueOf(cursor) /\ item.addedAt < c.addedAt
           [] sortBy = "read_date" ->
                \E c \in items :
                    /\ c.id = ValueOf(cursor)
                    /\ Present(c.readDate) /\ Present(item.readDate)
                    /\ ValueOf(item.readDate) < ValueOf(c.readDate)
           [] OTHER -> TRUE

\* twice the expression the RELEVANCE sort orders by
RelevanceOrder(item, query) ==
    LET st == similarity(item.title, query)
        sa == similarity(OrEmpty(item.author), query)
        bonus == (IF ILike(item.title, query) THEN 2 ELSE 0) +
                 (IF ILike(OrEmpty(item.author), query) THEN 1 ELSE 0)
    IN Ratio(4 * st[1] * sa[2] + 3 * sa[1] * st[2] + bonus * st[2] * sa[2], st[2] * sa[2])

\* ORDER BY: a comes before b.  Rows the clause leaves tied come in id order
\* here.
OrderBy(sortBy, query, a, b) ==
    CASE sortBy = "date_added" ->
            \/ a.addedAt > b.addedAt
            \/ a.addedAt = b.addedAt /\ a.id < b.id
      [] sortBy = "read_date" ->
            \/ Present(a.readDate) /\ ~Present(b.readDate)
            \/ /\ Present(a.readDate) /\ Present(b.readDate)
               /\ ValueOf(a.readDate) > ValueOf(b.readDate)
            \/ /\ a.readDate = b.readDate
               /\ a.id < b.id
      [] OTHER ->
            \/ RatioLess(RelevanceOrder(b, query), RelevanceOrder(a, query))
            \/ /\ ~RatioLess(RelevanceOrder(a, query), RelevanceOrder(b, query))
               /\ \/ a.addedAt > b.addedAt
                  \/ a.addedAt = b.addedAt /\ a.id < b.id

RECURSIVE OrderRows(_, _, _)
OrderRows(S, sortBy, query) ==
    IF S = {} THEN <<>>
    ELSE LET first == CHOOSE x \in S : \A y \in S \ {x} : OrderBy(sortBy, query, x, y)
         IN <<first>> \o OrderRows(S \ {first}, sortBy, query)

\* the row the query selects of an item
SqlRow(item, query) ==
    [id |-> item.id, title |-> item.title, author |-> item.author,
     added_at |-> item.addedAt, read_date |-> item.readDate, notes |-> item.notes,
     title_similarity |-> similarity(item.title, query),
     author_similarity |-> similarity(OrEmpty(item.author), query)]

\* the rows the database returns for the text buildSearchQuery builds, with
\* the parameters buildQueryParams lists
RunSearchQuery(userId, query, sortBy, cursor, limit) ==
    LET selected == {i \in items :
                        /\ i.userId = userId
                        /\ SearchCondition(i, query)
                        /\ CursorCondition(i, sortBy, cursor)}
        ordered == OrderRows(selected, sortBy, query)
    IN [i \in 1..(IF Len(ordered) < limit THEN Len(ordered) ELSE limit) |->
           SqlRow(ordered[i], query)]

\* the count the database returns for the text buildCountQuery builds
RunCountQuery(userId, query) ==
    Cardinality({i \in items : i.userId = userId /\ SearchCondition(i, query)})

-----------------------------------------------------------------------------
(* SearchItemsUseCase.execute *)

CACHE_TTL == 300
HOUR_MS == 3600000

\* a schema that does not look at the length of the query
SchemaWithoutQueryLength(input) ==
    /\ input.sortBy \in SortBy
    /\ input.limit >= 1 /\ input.limit <= 50

\* SearchItemsDTOSchema.parse succeeds
SearchItemsDTOSchema(input) ==
    /\ Len(input.query) >= 2 /\ Len(input.query) <= 100
    /\ input.sortBy \in SortBy
    /\ input.limit >= 1 /\ input.limit <= 50

\* generateCacheKey: the JSON text of these fields, which is different for
\* different values of them
generateCacheKey(input, cursor) ==
    [userId |-> input.userId, query |-> input.query, sortBy |-> input.sortBy,
     cursor |-> cursor, limit |-> input.limit]

\* calculateRelevanceScore, in hundredths.  The clock readings of the search
\* data are whole hours, so the age of an item is a whole number of hours and
\* thirty days are 720 of them.
calculateRelevanceScore(row, query) ==
    LET ts == row.title_similarity
        as == row.author_similarity
        bonus == (IF includes(toLowerCase(row.title), toLowerCase(query)) THEN 100 ELSE 0) +
                 (IF Present(row.author) /\
                     includes(toLowerCase(ValueOf(row.author)), toLowerCase(query))
                  THEN 50 ELSE 0)
        hours == (now - row.added_at) \div HOUR_MS
        recent == IF hours < 720 THEN 720 - hours ELSE 0
        den == ts[2] * as[2] * 72
        num == (200 * ts[1] * as[2] + 150 * as[1] * ts[2] + bonus * ts[2] * as[2]) * 72 +
               recent * ts[2] * as[2]
    IN (2 * num + den) \div (2 * den)

\* searchResults.sort((a, b) => b.relevanceScore - a.relevanceScore): highest
\* score first, equal scores in the order they had
RECURSIVE SortByRelevance(_)
SortByRelevance(results) ==
    IF results = <<>> THEN <<>>
    ELSE LET k == CHOOSE i \in 1..Len(results) :
                     /\ \A j \in 1..Len(results) :
                            results[j].relevanceScore <= results[i].relevanceScore
                     /\ \A j \in 1..(i - 1) :
                            results[j].relevanceScore < results[i].relevanceScore
         IN <<results[k]>> \o
            SortByRelevance([j \in 1..(Len(results) - 1) |->
                                IF j < k THEN results[j] ELSE results[j + 1]])

\* a performSearch that takes nextCursor from the page after sorting it
performSearchCursorOfPage(input, rows, totalCount) ==
    LET hasNextPage == Len(rows) > input.limit
        resultItems == IF hasNextPage THEN SubSeq(rows, 1, Len(rows) - 1) ELSE rows
        searchResults ==
            [i \in 1..Len(resultItems) |->
                [id |-> resultItems[i].id,
                 addedAt |-> <<"Date", resultItems[i].added_at>>,
                 readDate |-> {<<"Date", d>> : d \in resultItems[i].read_date},
                 relevanceScore |-> calculateRelevanceScore(resultItems[i], input.query)]]
        page == IF input.sortBy = "relevance"
                THEN SortByRelevance(searchResults) ELSE searchResults
    IN [items |-> page,
        nextCursor |-> IF hasNextPage THEN {page[Len(page)].id} ELSE {},
        hasNextPage |-> hasNextPage,
        totalCount |-> totalCount]

\* performSearch: the response made of the rows and the count
performSearch(input, rows, totalCount) ==
    LET hasNextPage == Len(rows) > input.limit
        resultItems == IF hasNextPage THEN SubSeq(rows, 1, Len(rows) - 1) ELSE rows
        searchResults ==
            [i \in 1..Len(resultItems) |->
                [id |-> resultItems[i].id,
                 addedAt |-> <<"Date", resultItems[i].added_at>>,
                 readDate |-> {<<"Date", d>> : d \in resultItems[i].read_date},
                 relevanceScore |-> calculateRelevanceScore(resultItems[i], input.query)]]
    IN [items |-> IF input.sortBy = "relevance"
                  THEN SortByRelevance(searchResults) ELSE searchResults,
        nextCursor |-> IF hasNextPage THEN {resultItems[Len(resultItems)].id} ELSE {},
        hasNextPage |-> hasNextPage,
        totalCount |-> totalCount]

\* JSON.stringify(response): a Date becomes the string of its ISO form, and
\* a property that is undefined is left out
JsonStringify(response) ==
    [json |->
        [response EXCEPT !.items =
            [i \in 1..Len(response.items) |->
                [response.items[i] EXCEPT
                    !.addedAt = <<"string", @[2]>>,
                    !.readDate = {<<"string", d[2]>> : d \in @}]]]]

\* a JSON.parse that turns the date strings into Dates again
JsonParseReviving(text) ==
    [text.json EXCEPT !.items =
        [i \in 1..Len(text.json.items) |->
            [text.json.items[i] EXCEPT
                !.addedAt = <<"Date", @[2]>>,
                !.readDate = {<<"Date", d[2]>> : d \in @}]]]

\* JSON.parse(cached): strings stay strings
JsonParse(text) == text.json

\* a cache.set that passes no TTL: the entry never expires
CacheEntryWithoutTtl(key, response) ==
    [key |-> key, value |-> JsonStringify(response), ttl |-> 0]

\* cache.set(cacheKey, JSON.stringify(response), CACHE_TTL): the entry written
CacheEntry(key, response) ==
    [key |-> key, value |-> JsonStringify(response), ttl |-> CACHE_TTL]

\* execute returns a response to the client, which asks for the next page
\* when there is one
ReturnPage(response, step) ==
    searcher' = [searcher EXCEPT
                    !.pc = IF response.hasNextPage THEN "returned" ELSE "finished",
                    !.pages = Append(@, response),
                    !.rows = <<>>,
                    !.response = {},
                    !.trace = Append(@, step)]

\* an awaited call rejects and execute, which catches nothing, rejects with
\* the same error
Throw(err, step) ==
    searcher' = [searcher EXCEPT !.pc = "rejected", !.error = err,
                                 !.trace = Append(@, step)]

\* the client calls execute, with the cursor it starts from (none, when it
\* asks for the first page) and then with the nextCursor of the page before:
\* validateInput, generateCacheKey, cache.get
SearchStart ==
    /\ searcher.pc \in {"ready", "returned"}
    /\ searcher.requests < MaxSearchCalls
    /\ LET cursor == IF searcher.pages = <<>> THEN searcher.cursor
                     ELSE searcher.pages[Len(searcher.pages)].nextCursor
           \* the items whose item.added event was emitted before the first
           \* call of this search
           known == IF searcher.pages = <<>>
                    THEN {e.itemId : e \in BagToSet(events)} ELSE searcher.known
       IN IF SearchItemsDTOSchema(searcher.input)
          THEN searcher' = [searcher EXCEPT !.pc = "cacheGet", !.cursor = cursor,
                                            !.requests = @ + 1,
                                            !.trace = <<"validate">>,
                                            !.known = known]
          ELSE searcher' = [searcher EXCEPT !.pc = "rejected", !.cursor = cursor,
                                            !.requests = @ + 1,
                                            !.error = "ValidationError",
                                            !.trace = <<"validate">>,
                                            !.known = known]
    /\ UNCHANGED cache
    /\ UNCHANGED outsideSearch

\* cache.get resolves, and a hit is returned and a miss goes on to the
\* repository, or it rejects
CacheGet ==
    /\ searcher.pc = "cacheGet"
    /\ LET key == generateCacheKey(searcher.input, searcher.cursor)
       IN \/ IF \E e \in cache : e.key = key
             THEN ReturnPage(JsonParse((CHOOSE e \in cache : e.key = key).value),
                             "cacheGet")
             ELSE searcher' = [searcher EXCEPT !.pc = "query",
                                               !.trace = Append(@, "cacheGet")]
          \/ Throw("CacheError", "cacheGet")
    /\ UNCHANGED cache
    /\ UNCHANGED outsideSearch

\* searchWithRawQuery resolves, over the mock repository, which is handed the
\* query text, or over a database that runs the text, or it rejects
RunQuery ==
    /\ searcher.pc = "query"
    /\ \/ searcher' = [searcher EXCEPT
                          !.pc = "count",
                          !.trace = Append(@, "query"),
                          !.rows =
                              IF searcher.backend = "mock"
                              THEN searchWithRawQuery(
                                       searcher.input.userId,
                                       buildSearchQuery(searcher.input, searcher.cursor),
                                       searcher.cursor, searcher.input.limit + 1)
                              ELSE RunSearchQuery(
                                       searcher.input.userId, searcher.input.query,
                                       searcher.input.sortBy, searcher.cursor,
                                       searcher.input.limit + 1)]
       \/ Throw("RepositoryError", "query")
    /\ UNCHANGED cache
    /\ UNCHANGED outsideSearch

\* getTotalCount: the count query resolves, over the mock repository or over
\* the database, and the response is put together, or it rejects
RunCount ==
    /\ searcher.pc = "count"
    /\ LET totalCount ==
               IF searcher.backend = "mock"
               THEN executeRawQueryCount(searcher.input.userId, searcher.input.query)
               ELSE RunCountQuery(searcher.input.userId, searcher.input.query)
       IN \/ searcher' = [searcher EXCEPT
                             !.pc = "cacheSet",
                             !.trace = Append(@, "count"),
                             !.response = {performSearch(searcher.input, searcher.rows,
                                                         totalCount)}]
          \/ Throw("RepositoryError", "count")
    /\ UNCHANGED outsideSearch
    /\ UNCHANGED cache

\* cache.set resolves and execute returns the response, or cache.set rejects
CacheSet ==
    /\ searcher.pc = "cacheSet"
    /\ LET key == generateCacheKey(searcher.input, searcher.cursor)
           response == ValueOf(searcher.response)
       IN \/ /\ cache' = {e \in cache : e.key # key} \cup {CacheEntry(key, response)}
             /\ ReturnPage(response, "cacheSet")
          \/ /\ Throw("CacheError", "cacheSet")
             /\ UNCHANGED cache
    /\ UNCHANGED outsideSearch

\* the searches a client makes: the last three are invalid, by a query of
\* one character, by a query of 101 characters and by the limit
QueryAb == <<"a", "b">>
SearchInputs ==
    {[query |-> QueryAb, limit |-> 1], [query |-> QueryAb, limit |-> 2],
     [query |-> <<"a">>, limit |-> 1], [query |-> [i \in 1..101 |-> "a"], limit |-> 1],
     [query |-> QueryAb, limit |-> 0]}

\* what the stored items say: the query in the title, in the author, in the
\* notes, nowhere, and in the title of another user's item
SearchTexts ==
    {[userId |-> KnownUser, title |-> <<"A", "b", "c">>, author |-> {}, notes |-> {}],
     [userId |-> KnownUser, title |-> <<"x", "y", "z">>, author |-> {QueryAb}, notes |-> {}],
     [userId |-> KnownUser, title |-> <<"x", "y", "z">>, author |-> {},
      notes |-> {<<"c", "a", "b">>}],
     [userId |-> KnownUser, title |-> <<"x", "y", "z">>, author |-> {}, notes |-> {}],
     [userId |-> UnknownUser, title |-> <<"a", "b", "c">>, author |-> {}, notes |-> {}]}

\* when the stored items were added and read: items that take the same entry
\* share their addedAt and their readDate
SearchDates ==
    {[addedAt |-> 0, readDate |-> {}],
     [addedAt |-> HOUR_MS, readDate |-> {0}],
     [addedAt |-> 2 * HOUR_MS, readDate |-> {HOUR_MS}]}

SearchItem(id, text, dates) ==
    [id |-> id, userId |-> text.userId, type |-> "BOOK", title |-> text.title,
     author |-> text.author, notes |-> text.notes, readDate |-> dates.readDate,
     addedAt |-> dates.addedAt]

InitSearch ==
    /\ now = 3 * HOUR_MS
    /\ \E n \in 0..MaxSearchItems :
       \E text \in [1..n -> SearchTexts] :
       \E dates \in [1..n -> SearchDates] :
          items = {SearchItem(id, text[id], dates[id]) : id \in 1..n}
    /\ users = [u \in UserIds |-> UserStatsCtor([totalItems |-> 0])]
    /\ IngestionIdle
    /\ StreakIdle
    /\ LimiterIdle
    /\ pager = IdlePager
    /\ \E backend \in {"mock", "sql"} :
       \E sortBy \in SortBy :
       \E in \in SearchInputs :
          searcher = [IdleSearcher EXCEPT
                         !.pc = "ready",
                         !.backend = backend,
                         !.input = [userId |-> KnownUser, query |-> in.query,
                                    sortBy |-> sortBy, limit |-> in.limit]]
    /\ cache = {}
    /\ AccountsIdle
    /\ BreakerIdle
    /\ TiersIdle
    /\ keyed = NoKeys

NextSearch ==
    \/ SearchStart
    \/ CacheGet
    \/ RunQuery
    \/ RunCount
    \/ CacheSet

SpecSearch == InitSearch /\ [][NextSearch]_vars

\* the client, whose search has ended, runs the same search anew
SearchAgain ==
    /\ searcher.pc \in {"finished", "rejected"}
    /\ searcher.requests < MaxSearchCalls
    /\ searcher' = [searcher EXCEPT !.pc = "ready", !.cursor = {}, !.pages = <<>>,
                                    !.error = "none", !.trace = <<>>]
    /\ UNCHANGED cache
    /\ UNCHANGED outsideSearch

\* a user without items who searches for a part of the title of the book
\* that is about to be added, over the database, with a page that has room
\* for every item added
InitRoundTrip ==
    /\ now = StartTime
    /\ items = {}
    /\ users = [u \in {KnownUser} |-> UserStatsCtor([totalItems |-> 0])]
    /\ IngestionIdle
    /\ StreakIdle
    /\ LimiterIdle
    /\ pager = IdlePager
    /\ \E sortBy \in SortBy :
          searcher = [IdleSearcher EXCEPT
                         !.pc = "ready",
                         !.backend = "sql",
                         !.input = [userId |-> KnownUser,
                                    query |-> SubSeq(TitleBook, 2, 3),
                                    sortBy |-> sortBy, limit |-> MaxCalls]]
    /\ cache = {}
    /\ AccountsIdle
    /\ BreakerIdle
    /\ TiersIdle
    /\ keyed = NoKeys

\* one worker adds the book, with its ISBN, while the client searches
NextRoundTrip ==
    \/ \E c \in {"w1"} :
          \/ Start(c, "isbn")
          \/ RateLimitCheck(c)
          \/ Transaction(c)
          \/ Schedule(c)
          \/ Audit(c)
          \/ Emit(c)
    \/ NextSearch
    \/ SearchAgain

SpecRoundTrip == InitRoundTrip /\ [][NextRoundTrip]_vars

\* what the items say whose ranking is looked at: the title is the query in
\* other case, the title and the author contain it, and three titles that
\* are only similar to it, each a little less than the one before
RankTexts ==
    {[userId |-> KnownUser, title |-> <<"a", "B">>, author |-> {}, notes |-> {}],
     [userId |-> KnownUser, title |-> <<"a", "b", "c">>, author |-> {QueryAb}, notes |-> {}],
     [userId |-> KnownUser, title |-> <<"a", "c">>, author |-> {}, notes |-> {}],
     [userId |-> KnownUser, title |-> <<"a", "c", "d">>, author |-> {}, notes |-> {}],
     [userId |-> KnownUser, title |-> <<"a", "c", "d", "e", "f">>, author |-> {},
      notes |-> {}]}

\* a user with MaxRanked items, each added 590 hours ago or just now, asks
\* for a page of two, from the start or with a cursor that is the id of no
\* item
InitRanking ==
    /\ now = 590 * HOUR_MS
    /\ \E text \in [1..MaxRanked -> RankTexts] :
       \E dates \in [1..MaxRanked -> {[addedAt |-> 0, readDate |-> {}],
                                      [addedAt |-> now, readDate |-> {0}]}] :
          items = {SearchItem(id, text[id], dates[id]) : id \in 1..MaxRanked}
    /\ users = [u \in UserIds |-> UserStatsCtor([totalItems |-> 0])]
    /\ IngestionIdle
    /\ StreakIdle
    /\ LimiterIdle
    /\ pager = IdlePager
    /\ \E backend \in {"mock", "sql"} :
       \E sortBy \in SortBy :
       \E cursor \in {{}, {MaxRanked + 1}} :
          searcher = [IdleSearcher EXCEPT
                         !.pc = "ready",
                         !.backend = backend,
                         !.cursor = cursor,
                         !.input = [userId |-> KnownUser, query |-> QueryAb,
                                    sortBy |-> sortBy, limit |-> 2]]
    /\ cache = {}
    /\ AccountsIdle
    /\ BreakerIdle
    /\ TiersIdle
    /\ keyed = NoKeys

SpecRanking == InitRanking /\ [][NextSearch]_vars

-----------------------------------------------------------------------------
(* Properties of search pagination *)

\* the ids of the pages returned to the client, one page after the other
RECURSIVE SearchedIds(_)
SearchedIds(pages) ==
    IF pages = <<>> THEN <<>>
    ELSE [i \in 1..Len(pages[1].items) |-> pages[1].items[i].id] \o
         SearchedIds(Tail(pages))

\* the user's item has the query in its title, author or notes, in any case
\* of the letters
ContainsQuery(item, query) ==
    \/ includes(toLowerCase(item.title), toLowerCase(query))
    \/ includes(toLowerCase(OrEmpty(item.author)), toLowerCase(query))
    \/ includes(toLowerCase(OrEmpty(item.notes)), toLowerCase(query))

\* C5: for every sort mode and fixed data, the pages a client gets by
\* searching without cursor and then passing each nextCursor on never repeat
\* an item, and when the page without next page has come, every item of the
\* user that contains the query is on one of them, also when items share
\* their addedAt or have no readDate.
C5_PagesReturnEveryMatchOnce ==
    LET ids == SearchedIds(searcher.pages)
    IN /\ \A i, j \in 1..Len(ids) : ids[i] = ids[j] => i = j
       /\ searcher.pc = "finished" =>
             \A item \in items :
                (item.userId = searcher.input.userId /\
                 ContainsQuery(item, searcher.input.query))
                    => \E i \in 1..Len(ids) : ids[i] = item.id


\* the length of the query is outside 2..100
QueryLengthInvalid == Len(searcher.input.query) < 2 \/ Len(searcher.input.query) > 100

\* C17: when execute is called with a query shorter than 2 or longer than
\* 100 characters it rejects with ValidationError, and neither the cache nor
\* the repository is called: validation is the only step taken and the cache
\* holds nothing.
C17_InvalidQueryRejected ==
    (QueryLengthInvalid /\ searcher.requests > 0) =>
        /\ searcher.pc = "rejected"
        /\ searcher.error = "ValidationError"
        /\ searcher.trace = <<"validate">>
        /\ searcher.pages = <<>>
        /\ cache = {}

\* execute was called with a query of 101 characters and was rejected
C17_Witness ==
    /\ Len(searcher.input.query) = 101
    /\ searcher.requests = 1
    /\ searcher.pc = "rejected"

\* the entries the cache holds for the key of the running call
CachedNow == {e \in cache : e.key = generateCacheKey(searcher.input, searcher.cursor)}

\* C18: when cache.get resolves with an entry, execute returns what the
\* entry holds, as it was stored, after validation and the cache lookup only:
\* neither the search query nor the count query is run and the cache is not
\* written.
C18_CacheHitReturnsStored ==
    [][(/\ searcher.pc = "cacheGet"
        /\ CachedNow # {}
        /\ searcher' # searcher
        /\ searcher'.pc # "rejected")
       => /\ searcher'.pc \in {"returned", "finished"}
          /\ searcher'.pages =
                 Append(searcher.pages, (CHOOSE e \in CachedNow : TRUE).value.json)
          /\ searcher'.trace = <<"validate", "cacheGet">>
          /\ cache' = cache]_vars

\* a call was answered from the cache with a page that has an item on it
C18_Witness ==
    /\ searcher.trace = <<"validate", "cacheGet">>
    /\ searcher.pc \in {"returned", "finished"}
    /\ searcher.pages[Len(searcher.pages)].items # <<>>

\* C19: the cache changes only in the step that follows a search query and
\* a count query that both succeeded, by one entry under the key of the
\* call with a TTL of 300 seconds that holds the response returned, also
\* when no item was found; a call of the repository that fails ends execute
\* with the repository's error and leaves the cache as it was.
C19_CacheWrittenAfterSuccess ==
    [][/\ cache' # cache =>
            /\ searcher.trace = <<"validate", "cacheGet", "query", "count">>
            /\ searcher'.pc \in {"returned", "finished"}
            /\ \E e \in cache' :
                  /\ cache' = {o \in cache : o.key # e.key} \cup {e}
                  /\ e.key = generateCacheKey(searcher.input, searcher.cursor)
                  /\ e.ttl = 300
                  /\ e.value =
                        JsonStringify(searcher'.pages[Len(searcher'.pages)])
       /\ (searcher.pc \in {"query", "count"} /\ searcher'.pc = "rejected") =>
            /\ searcher'.error = "RepositoryError"
            /\ searcher'.pages = searcher.pages
            /\ cache' = cache]_vars

\* a search that found nothing has been cached
C19_Witness ==
    /\ searcher.pc = "finished"
    /\ searcher.trace = <<"validate", "cacheGet", "query", "count", "cacheSet">>
    /\ \E e \in cache : e.value.json.items = <<>> /\ e.ttl = 300

\* C20: when the search query and the count query succeeded, execute
\* returns the response it computed whether cache.set succeeds or fails.
C20_CacheWriteFailureNonFatal ==
    (searcher.trace = <<"validate", "cacheGet", "query", "count", "cacheSet">>) =>
        /\ searcher.pc \in {"returned", "finished"}
        /\ searcher.error = "none"
        /\ Len(searcher.pages) = searcher.requests

-----------------------------------------------------------------------------
(* Properties of a page of search results *)

\* performSearch has put the response together and execute has not returned
\* it yet: the rows the repository gave and the response are both at hand
ResponseBuilt == searcher.pc = "cacheSet" /\ searcher.response # {}

\* the ids of a sequence of rows or results
IdsOf(seq) == {seq[i].id : i \in 1..Len(seq)}

C22_InvalidCursorIsError ==
    (/\ Present(searcher.cursor)
     /\ \A i \in items : i.id # ValueOf(searcher.cursor)
     /\ Len(searcher.trace) >= 3)
        => /\ searcher.pc = "rejected"
           /\ searcher.pages = <<>>

\* the stored item a result stands for
ItemOfResult(result) == CHOOSE i \in items : i.id = result.id

\* the title is the query, in any case of the letters
TitleIsQuery(item) == toLowerCase(item.title) = toLowerCase(searcher.input.query)

\* the title contains the query and is not the query
TitleHasQuery(item) ==
    ContainsQuery([item EXCEPT !.author = {}, !.notes = {}], searcher.input.query) /\
    ~TitleIsQuery(item)

\* C27: of two items on a page of results, whatever their authors and
\* addedAt, one whose title is the query (in any case) has a relevanceScore
\* strictly greater than one whose title merely contains the query, and that
\* one has a score at least that of an item that neither in title, author
\* nor notes contains the query and was matched by similarity alone.
C27_ExactAboveSubstringAboveFuzzy ==
    ResponseBuilt =>
        LET results == ValueOf(searcher.response).items
        IN \A x, y \in 1..Len(results) :
              LET a == ItemOfResult(results[x])
                  b == ItemOfResult(results[y])
              IN /\ (TitleIsQuery(a) /\ TitleHasQuery(b)) =>
                        results[x].relevanceScore > results[y].relevanceScore
                 /\ (TitleHasQuery(a) /\ ~ContainsQuery(b, searcher.input.query)) =>
                        results[x].relevanceScore >= results[y].relevanceScore

\* C28: the items of a page sorted by relevance are in non-increasing order
\* of relevanceScore, and of two items with the same score the one added
\* later comes first.
C28_RelevanceOrderTiesByAddedAt ==
    (ResponseBuilt /\ searcher.input.sortBy = "relevance") =>
        LET results == ValueOf(searcher.response).items
        IN \A x, y \in 1..Len(results) :
              x < y =>
                 /\ results[x].relevanceScore >= results[y].relevanceScore
                 /\ results[x].relevanceScore = results[y].relevanceScore =>
                       results[x].addedAt[2] >= results[y].addedAt[2]

-----------------------------------------------------------------------------
(* Ingestion and search together *)

\* C29: when a search has come to its last page, every item of the searching
\* user whose add had gone through before the search's first call and whose
\* title contains the query (of 2 to 100 characters) is on one of the pages,
\* also when the same search was run and answered before the item was added.
C29_AddedItemIsFound ==
    (searcher.pc = "finished" /\ ~QueryLengthInvalid) =>
        \A i \in items :
           (/\ i.id \in searcher.known
            /\ i.userId = searcher.input.userId
            /\ includes(i.title, searcher.input.query))
               => \E k \in 1..Len(SearchedIds(searcher.pages)) :
                     SearchedIds(searcher.pages)[k] = i.id

-----------------------------------------------------------------------------
(* MockUserRepository.create *)

\* findByUsername: the stored user with the username, if any
findByUsername(username) == {u \in accounts : u.username = username}

\* findByEmail: the stored user with the email, if any
findByEmail(email) == {u \in accounts : u.email = {email}}

\* the users the callers try to create: the user of the tests, one with the
\* same username, one with the same email, and one without email
NewUsers ==
    {[id |-> 1, username |-> "testuser", email |-> {"test@example.com"}],
     [id |-> 2, username |-> "testuser", email |-> {"different@example.com"}],
     [id |-> 3, username |-> "differentuser", email |-> {"test@example.com"}],
     [id |-> 4, username |-> "noemailer", email |-> {}]}

\* create is called: findByUsername runs at once, and its result is awaited
CreateCall(c, user) ==
    /\ creates[c].pc \in {"idle", "done", "rejected"}
    /\ creates[c].made < MaxCreates
    /\ creates' = [creates EXCEPT ![c] = [pc |-> "username", user |-> {user},
                                          existing |-> findByUsername(user.username),
                                          error |-> "none", made |-> @.made + 1]]
    /\ UNCHANGED accounts
    /\ UNCHANGED outsideAccounts

\* create goes on after the first await: a user found by username makes it
\* throw; else findByEmail runs and is awaited, or, for a user without email,
\* the user is stored
CreateAfterUsername(c) ==
    /\ creates[c].pc = "username"
    /\ LET user == ValueOf(creates[c].user)
       IN IF creates[c].existing # {}
          THEN /\ creates' = [creates EXCEPT ![c].pc = "rejected",
                                             ![c].error = "UsernameExists"]
               /\ UNCHANGED accounts
          ELSE IF Present(user.email)
          THEN /\ creates' = [creates EXCEPT ![c].pc = "email",
                                             ![c].existing =
                                                 findByEmail(ValueOf(user.email))]
               /\ UNCHANGED accounts
          ELSE /\ creates' = [creates EXCEPT ![c].pc = "done"]
               /\ accounts' = {u \in accounts : u.id # user.id} \cup {user}
    /\ UNCHANGED outsideAccounts

\* create goes on after the second await: a user found by email makes it
\* throw; else this.users.set(user.id, user)
CreateAfterEmail(c) ==
    /\ creates[c].pc = "email"
    /\ LET user == ValueOf(creates[c].user)
       IN IF creates[c].existing # {}
          THEN /\ creates' = [creates EXCEPT ![c].pc = "rejected",
                                             ![c].error = "EmailExists"]
               /\ UNCHANGED accounts
          ELSE /\ creates' = [creates EXCEPT ![c].pc = "done"]
               /\ accounts' = {u \in accounts : u.id # user.id} \cup {user}
    /\ UNCHANGED outsideAccounts

InitUsers ==
    /\ now = StartTime
    /\ items = {}
    /\ users = [u \in {KnownUser} |-> UserStatsCtor([totalItems |-> 0])]
    /\ IngestionIdle
    /\ StreakIdle
    /\ LimiterIdle
    /\ SearchIdle
    /\ pager = IdlePager
    /\ AccountsIdle
    /\ BreakerIdle
    /\ TiersIdle
    /\ keyed = NoKeys

NextUsers ==
    \/ \E c \in Creators, user \in NewUsers : CreateCall(c, user)
    \/ \E c \in Creators : CreateAfterUsername(c)
    \/ \E c \in Creators : CreateAfterEmail(c)

SpecUsers == InitUsers /\ [][NextUsers]_vars

-----------------------------------------------------------------------------
(* Properties of the user repository *)

\* the stored users, other than the user itself, that share its username or
\* its email
Colliding(user) ==
    {u \in accounts :
        /\ u.id # user.id
        /\ \/ u.username = user.username
           \/ u.email # {} /\ u.email = user.email}

\* C30: after any sequence or interleaving of create calls no two stored
\* users share a username or an email; a create call that throws leaves the
\* store as it was, and a create call stores its user only when no other
\* stored user has the username or the email.
C30_UsernamesAndEmailsUnique ==
    /\ [](\A u \in accounts : Colliding(u) = {})
    /\ [][\A c \in Creators :
            /\ (creates[c].pc # "rejected" /\ creates'[c].pc = "rejected") =>
                   accounts' = accounts
            /\ (creates[c].pc # "done" /\ creates'[c].pc = "done") =>
                   Colliding(ValueOf(creates[c].user)) = {}]_vars

-----------------------------------------------------------------------------
(* CircuitBreaker *)

THRESHOLD == 5
BREAKER_TIMEOUT == 60000

\* execute calls made so far
Made ==
    Cardinality({p \in Callers \X (1..MaxAttempts) : p[2] <= attempts[p[1]].made})

\* onSuccess without `this.failures = 0`
onSuccessKeepsCount(b) ==
    [b EXCEPT !.state = "CLOSED", !.outcomes = Append(@, "resolved")]

\* onSuccess
onSuccess(b) ==
    [b EXCEPT !.failures = 0, !.state = "CLOSED",
              !.outcomes = Append(@, "resolved")]

\* onFailure
onFailure(b) ==
    [b EXCEPT !.failures = @ + 1, !.lastFailureTime = now,
              !.state = IF b.failures + 1 >= THRESHOLD THEN "OPEN" ELSE @,
              !.outcomes = Append(@, "rejected")]

\* execute up to `await fn()`: an OPEN breaker throws ProviderAPIError unless
\* more than the timeout has passed since the last failure, in which case it
\* becomes HALF_OPEN; in every other case fn is called
Execute(c) ==
    /\ attempts[c].pc \in {"idle", "resolved", "rejected"}
    /\ Made < MaxAttempts
    /\ IF breaker.state = "OPEN" /\ ~(now - breaker.lastFailureTime > BREAKER_TIMEOUT)
       THEN /\ attempts' = [attempts EXCEPT ![c].pc = "rejected",
                                            ![c].error = "ProviderAPIError",
                                            ![c].made = @ + 1]
            /\ UNCHANGED breaker
       ELSE /\ attempts' = [attempts EXCEPT ![c].pc = "calling",
                                            ![c].error = "none",
                                            ![c].made = @ + 1]
            /\ breaker' = [breaker EXCEPT
                               !.state = IF @ = "OPEN" THEN "HALF_OPEN" ELSE @]
    /\ UNCHANGED now
    /\ UNCHANGED outsideBreaker

\* fn resolves: onSuccess, and execute returns the result
FnResolves(c) ==
    /\ attempts[c].pc = "calling"
    /\ breaker' = onSuccess(breaker)
    /\ attempts' = [attempts EXCEPT ![c].pc = "resolved"]
    /\ UNCHANGED now
    /\ UNCHANGED outsideBreaker

\* fn rejects: onFailure, and execute rethrows the error
FnRejects(c) ==
    /\ attempts[c].pc = "calling"
    /\ breaker' = onFailure(breaker)
    /\ attempts' = [attempts EXCEPT ![c].pc = "rejected", ![c].error = "FnError"]
    /\ UNCHANGED now
    /\ UNCHANGED outsideBreaker

\* half the timeout goes by
TickBreaker ==
    /\ now < StartTime + MaxBreakerTicks * (BREAKER_TIMEOUT \div 2)
    /\ now' = now + BREAKER_TIMEOUT \div 2
    /\ UNCHANGED breakerVars
    /\ UNCHANGED outsideBreaker

InitBreaker ==
    /\ now = StartTime
    /\ items = {}
    /\ users = [u \in {KnownUser} |-> UserStatsCtor([totalItems |-> 0])]
    /\ IngestionIdle
    /\ StreakIdle
    /\ LimiterIdle
    /\ SearchIdle
    /\ pager = IdlePager
    /\ AccountsIdle
    /\ BreakerIdle
    /\ TiersIdle
    /\ keyed = NoKeys

NextBreaker ==
    \/ \E c \in Callers : Execute(c)
    \/ \E c \in Callers : FnResolves(c)
    \/ \E c \in Callers : FnRejects(c)
    \/ TickBreaker

SpecBreaker == InitBreaker /\ [][NextBreaker]_vars

-----------------------------------------------------------------------------
(* Properties of the circuit breaker *)

\* the number of wrapped calls that failed one after the other at the end of seq
RECURSIVE FailedInARow(_)
FailedInARow(seq) ==
    IF seq = <<>> \/ seq[Len(seq)] # "rejected"
    THEN 0
    ELSE 1 + FailedInARow(SubSeq(seq, 1, Len(seq) - 1))

\* the outcomes up to the last failure
UpToLastFailure(seq) ==
    LET failed == {i \in 1..Len(seq) : seq[i] = "rejected"}
    IN IF failed = {} THEN <<>>
       ELSE SubSeq(seq, 1, CHOOSE i \in failed : \A j \in failed : j <= i)

\* the last failure was the last of at least THRESHOLD failures in a row
Tripped == FailedInARow(UpToLastFailure(breaker.outcomes)) >= THRESHOLD

\* caller c enters execute in this step
Enters(c) == attempts'[c].made = attempts[c].made + 1

\* C31: once THRESHOLD wrapped calls in a row have failed the breaker is
\* OPEN, and every execute call entered less than BREAKER_TIMEOUT ms after
\* the last failure is rejected at once with ProviderAPIError, the wrapped
\* call not being invoked; no call waits.
C31_OpenRejectsFast ==
    /\ [][FailedInARow(breaker'.outcomes) >= THRESHOLD
             /\ breaker'.outcomes # breaker.outcomes
          => breaker'.state = "OPEN"]_vars
    /\ [][\A c \in Callers :
            Enters(c) /\ Tripped /\ now - breaker.lastFailureTime < BREAKER_TIMEOUT
            => /\ attempts'[c].pc = "rejected"
               /\ attempts'[c].error = "ProviderAPIError"
               /\ breaker' = breaker]_vars

\* caller c's wrapped call resolves in this step
Resolves(c) == attempts[c].pc = "calling" /\ attempts'[c].pc = "resolved"

\* caller c's wrapped call rejects in this step
Fails(c) == attempts[c].pc = "calling" /\ attempts'[c].pc = "rejected"

\* what a resolved and a failed wrapped call do to the breaker, and when a
\* CLOSED breaker opens
BreakerOutcomes ==
    \A c \in Callers :
        /\ Resolves(c) => breaker'.state = "CLOSED" /\ breaker'.failures = 0
        /\ Fails(c) /\ breaker.state = "HALF_OPEN"
             => breaker'.state = "OPEN" /\ breaker'.lastFailureTime = now
        /\ breaker.state = "CLOSED" /\ breaker'.state = "OPEN"
             => Fails(c) \/ attempts'[c] = attempts[c]
        /\ breaker.state = "CLOSED" /\ breaker'.state = "OPEN"
             => FailedInARow(breaker'.outcomes) >= THRESHOLD

\* C35 (as stated): an execute entered on an OPEN breaker once BREAKER_TIMEOUT
\* ms have passed since the last failure makes it HALF_OPEN and invokes the
\* wrapped call; a success closes the breaker with the count reset, a failure
\* in HALF_OPEN opens it again with lastFailureTime refreshed, and a CLOSED
\* breaker opens only when THRESHOLD calls in a row have failed.
C35_RecoveryAtTimeout ==
    [][/\ \A c \in Callers :
            Enters(c) /\ breaker.state = "OPEN"
                      /\ now - breaker.lastFailureTime >= BREAKER_TIMEOUT
            => breaker'.state = "HALF_OPEN" /\ attempts'[c].pc = "calling"
       /\ BreakerOutcomes]_vars

\* C35 (amended): the same, the execute on an OPEN breaker making it HALF_OPEN
\* and invoking the wrapped call exactly when more than BREAKER_TIMEOUT ms
\* have passed since the last failure.
C35_RecoveryAfterTimeout ==
    [][/\ \A c \in Callers :
            Enters(c) /\ breaker.state = "OPEN"
            => (now - breaker.lastFailureTime > BREAKER_TIMEOUT
                  <=> breaker'.state = "HALF_OPEN" /\ attempts'[c].pc = "calling")
       /\ BreakerOutcomes]_vars

\* a breaker that opened lets a call through after the timeout
C35_Witness ==
    /\ breaker.state = "HALF_OPEN"
    /\ \E c \in Callers : attempts[c].pc = "calling"
    /\ now - breaker.lastFailureTime > BREAKER_TIMEOUT

-----------------------------------------------------------------------------
(* MultiTierCache *)

PROFILE_TTL == 300

\* the keys the profile page asks for
TierKeys == {"metadata", "profile"}

\* get calls made so far
MadeGets ==
    Cardinality({p \in Getters \X (1..MaxGets) : p[2] <= gets[p[1]].made})

\* Map.set(key, value)
MapSet(map, key, value) ==
    {e \in map : e.key # key} \cup {[key |-> key, value |-> value]}

\* Redis GET at the present time: the text under the key, unless it expired
RedisGet(key) ==
    {e.text : e \in {e \in tiers.l2 : e.key = key /\ e.expires > now}}

\* Redis SETEX key ttl text at the present time
RedisSetex(key, ttl, text) ==
    {e \in tiers.l2 : e.key # key}
        \cup {[key |-> key, text |-> text, expires |-> now + ttl * 1000]}

\* get up to `await this.l2.get(key)`: a key that l1 has is answered from l1
GetCall(c, key) ==
    /\ gets[c].pc \in {"idle", "done", "failed"}
    /\ MadeGets < MaxGets
    /\ LET hit == {e.value : e \in {e \in tiers.l1 : e.key = key}}
       IN gets' = [gets EXCEPT ![c] = [pc |-> IF hit # {} THEN "done" ELSE "l2get",
                                       key |-> {key}, value |-> hit,
                                       made |-> @.made + 1]]
    /\ UNCHANGED <<now, tiers>>
    /\ UNCHANGED outsideTiers

\* l2.get answers: a value that is there is parsed, put in l1 and returned;
\* otherwise the fetcher is called
L2Get(c) ==
    /\ gets[c].pc = "l2get"
    /\ LET key == ValueOf(gets[c].key)
           l2Value == RedisGet(key)
       IN IF l2Value # {}
          THEN LET parsed == JsonParse(ValueOf(l2Value))
               IN /\ tiers' = [tiers EXCEPT !.l1 = MapSet(@, key, parsed)]
                  /\ gets' = [gets EXCEPT ![c].pc = "done", ![c].value = {parsed}]
          ELSE /\ gets' = [gets EXCEPT ![c].pc = "fetch"]
               /\ UNCHANGED tiers
    /\ UNCHANGED now
    /\ UNCHANGED outsideTiers

\* the fetcher answers with the value of the present time, which is put in
\* l1; l2.setex is called
Fetch(c) ==
    /\ gets[c].pc = "fetch"
    /\ LET value == <<"fetched", now>>
       IN /\ tiers' = [tiers EXCEPT !.l1 = MapSet(@, ValueOf(gets[c].key), value)]
          /\ gets' = [gets EXCEPT ![c].pc = "setex", ![c].value = {value}]
    /\ UNCHANGED now
    /\ UNCHANGED outsideTiers

\* l2.setex answers, and get returns the value
Setex(c) ==
    /\ gets[c].pc = "setex"
    /\ tiers' = [tiers EXCEPT !.l2 = RedisSetex(ValueOf(gets[c].key), PROFILE_TTL,
                                                [json |-> ValueOf(gets[c].value)])]
    /\ gets' = [gets EXCEPT ![c].pc = "done"]
    /\ UNCHANGED now
    /\ UNCHANGED outsideTiers

\* l2.get, the fetcher or l2.setex rejects, and so does get
GetFails(c) ==
    /\ gets[c].pc \in {"l2get", "fetch", "setex"}
    /\ gets' = [gets EXCEPT ![c].pc = "failed", ![c].value = {}]
    /\ UNCHANGED <<now, tiers>>
    /\ UNCHANGED outsideTiers

\* half the TTL goes by
TickTtl ==
    /\ now < StartTime + MaxTtlTicks * ((PROFILE_TTL * 1000) \div 2)
    /\ now' = now + (PROFILE_TTL * 1000) \div 2
    /\ UNCHANGED tierVars
    /\ UNCHANGED outsideTiers

InitTiers ==
    /\ now = StartTime
    /\ items = {}
    /\ users = [u \in {KnownUser} |-> UserStatsCtor([totalItems |-> 0])]
    /\ IngestionIdle
    /\ StreakIdle
    /\ LimiterIdle
    /\ SearchIdle
    /\ pager = IdlePager
    /\ AccountsIdle
    /\ BreakerIdle
    /\ TiersIdle
    /\ keyed = NoKeys

NextTiers ==
    \/ \E c \in Getters, key \in TierKeys : GetCall(c, key)
    \/ \E c \in Getters : L2Get(c)
    \/ \E c \in Getters : Fetch(c)
    \/ \E c \in Getters : Setex(c)
    \/ \E c \in Getters : GetFails(c)
    \/ TickTtl

SpecTiers == InitTiers /\ [][NextTiers]_vars

-----------------------------------------------------------------------------
(* Properties of the multi-tier cache *)

\* caller c's get is answered from l1 or from l2 in this step
ServedFromCache(c) ==
    /\ gets'[c].pc = "done"
    /\ gets'[c].made = gets[c].made + 1 \/ gets[c].pc = "l2get"

\* C32: a get that is answered from the cache returns a value that was
\* fetched at most ttl seconds before; a get made after more than that calls
\* the fetcher again.
C32_ServedAtMostTtl ==
    [][\A c \in Getters :
         ServedFromCache(c)
         => now - ValueOf(gets'[c].value)[2] <= PROFILE_TTL * 1000]_vars

-----------------------------------------------------------------------------
(* Properties of the rate-limit wrappers *)

\* C33: a request whose checkLimit call returned allowed = false is answered
\* as rate-limited, with a retry-after value, and is not passed on to the
\* handler; one whose call returned allowed = true is passed on to the
\* handler, once; and no request is passed on while its call is pending.
C33_DeniedIsRejectedAllowedIsHandled ==
    \A c \in Checks :
        /\ checks[c].wrapper \in Wrappers /\ checks[c].pc = "issued"
             => checks[c].outcome = "none"
        /\ checks[c].wrapper \in Wrappers /\ checks[c].pc = "returned"
               /\ checks[c].outcome # "none"
             => IF checks[c].result.allowed
                THEN checks[c].outcome = "next" /\ checks[c].retryAfter = {}
                ELSE /\ checks[c].outcome = "tooManyRequests"
                     /\ \E seconds \in 1..CeilSeconds(PHONE_OTP.windowMs) :
                            checks[c].retryAfter = {seconds}

\* a wrapper has rejected a denied request, and another wrapper has answered
\* a request as well
C33_Witness ==
    \E w \in Wrappers :
        /\ \E c \in Checks :
              /\ checks[c].wrapper = w
              /\ checks[c].pc = "returned"
              /\ ~checks[c].result.allowed
              /\ checks[c].outcome = "tooManyRequests"
        /\ \E c \in Checks :
              /\ checks[c].wrapper # w
              /\ checks[c].pc = "returned"
              /\ checks[c].outcome # "none"

-----------------------------------------------------------------------------
(* The sliding window of the limiter: a key that is one hit short of its
   limit, and no reset *)

\* the hits the key holds at the start, all made at StartTime
SeededHits == PHONE_OTP.maxRequests - 1

InitWindow ==
    /\ now = StartTime
    /\ items = {}
    /\ users = [u \in {KnownUser} |-> UserStatsCtor([totalItems |-> 0])]
    /\ IngestionIdle
    /\ pager = IdlePager
    /\ StreakIdle
    /\ SearchIdle
    /\ checks = [c \in Checks |-> IdleCheck]
    /\ zsets = [k \in LimiterKeys |->
                   IF k = KeyOf(PHONE_OTP, Phone1)
                   THEN {[member |-> <<StartTime, MaxRandom + i>>, score |-> StartTime] :
                            i \in 1..SeededHits}
                   ELSE {}]
    /\ expiry = [k \in LimiterKeys |->
                    IF k = KeyOf(PHONE_OTP, Phone1)
                    THEN StartTime + CeilSeconds(PHONE_OTP.windowMs) * 1000
                    ELSE 0]
    /\ AccountsIdle
    /\ BreakerIdle
    /\ TiersIdle
    /\ keyed = NoKeys

NextWindow ==
    \/ \E c \in Checks : IssueCheck(c, Phone1)
    \/ \E c \in Checks, random \in 1..MaxRandom : EvalCheck(c, random)
    \/ TickMs
    \/ TickWindow

SpecWindow == InitWindow /\ [][NextWindow]_vars

\* the hits recorded before call c was answered that are younger than the
\* window at the time of c
YoungHits(c) ==
    (IF StartTime > checks[c].now - PHONE_OTP.windowMs THEN SeededHits ELSE 0)
    + Cardinality({d \in Allowed :
                      /\ checks[d].order < checks[c].order
                      /\ checks[d].now > checks[c].now - PHONE_OTP.windowMs})

\* C34: a call counts no hit that is a window or more older than it, and is
\* allowed as soon as fewer than maxRequests hits are younger than that, with
\* no reset made; denied calls are not hits.
C34_WindowSlides ==
    \A c \in Returned :
        /\ checks[c].result.totalHits
              <= YoungHits(c) + (IF checks[c].result.allowed THEN 1 ELSE 0)
        /\ YoungHits(c) < PHONE_OTP.maxRequests => checks[c].result.allowed

\* a caller was denied and, a window later, allowed
C34_Witness ==
    \E c, d \in Returned :
        /\ ~checks[c].result.allowed
        /\ checks[d].result.allowed
        /\ checks[c].order < checks[d].order
        /\ checks[d].now >= checks[c].now + PHONE_OTP.windowMs - MaxMs

-----------------------------------------------------------------------------
(* Properties of a rejected execute *)

\* C36: a call of execute that has rejected, at whichever step, has left no
\* item in the repository and has not incremented the user's stats.
C36_RejectedLeavesNothing ==
    \A c \in Calls :
        calls[c].pc = "rejected"
            => /\ calls[c].item \notin ItemIds
               /\ ~Committed(c)

-----------------------------------------------------------------------------
(* AddItemUseCase.execute beside MockItemRepository.delete: one caller that
   adds and deletes, its calls one after the other; it deletes its first
   item, the item created last, or an item that does not exist *)

\* delete(id): the item is removed; an id that is not stored makes it throw
Delete(id) ==
    /\ items' = IF id \in ItemIds THEN {i \in items : i.id # id} ELSE items
    /\ UNCHANGED <<now, users, ingestionVars>>
    /\ UNCHANGED outsideIngestion

\* the user has added RATE_LIMIT - 1 items just now
InitAddDelete ==
    /\ now = StartTime
    /\ items = {[SeedItem(id) EXCEPT !.addedAt = StartTime] : id \in 1..(RATE_LIMIT - 1)}
    /\ users = [u \in {KnownUser} |->
                   UserStatsCtor([totalItems |-> RATE_LIMIT - 1,
                                  booksCount |-> RATE_LIMIT - 1])]
    /\ nextId = RATE_LIMIT
    /\ calls = [c \in Calls |-> IdleCall]
    /\ started = 0
    /\ jobs = EmptyBag
    /\ events = EmptyBag
    /\ audits = EmptyBag
    /\ pager = IdlePager
    /\ LimiterIdle
    /\ StreakIdle
    /\ SearchIdle
    /\ AccountsIdle
    /\ BreakerIdle
    /\ TiersIdle
    /\ keyed = NoKeys

NextAddDelete ==
    \/ \E rn \in {"plain", "isbn"} : Start("w1", rn)
    \/ RateLimitCheck("w1")
    \/ Transaction("w1")
    \/ Schedule("w1")
    \/ Audit("w1")
    \/ Emit("w1")
    \/ \E id \in {1, nextId - 1, nextId} : Delete(id)
    \/ Tick

SpecAddDelete == InitAddDelete /\ [][NextAddDelete]_vars

\* the add calls that have succeeded, those made before the start included;
\* all of them lie inside one window, the clock advancing by less than that
SucceededAdds == (RATE_LIMIT - 1) + BagCardinality(events)

\* C37: whatever the user deletes, at most RATE_LIMIT add calls succeed
\* inside one window.
C37_DeleteGivesNoBudget == SucceededAdds <= RATE_LIMIT

-----------------------------------------------------------------------------
(* Frame of the streak batch *)

\* C38: the update query of executeBatch(userIds) changes no user that was
\* not given, and of a given user without a read yesterday nothing but
\* streakDays, which becomes 0: lastReadDate stays as it was.
C38_StreakFrame ==
    [][(batch.pc = "update" /\ batch'.pc = "milestones") =>
          \A u \in DOMAIN users :
             /\ u \notin batch.userIds => users'[u] = users[u]
             /\ u \in batch.userIds /\ ~ReadYesterday(u)
                  => users'[u] = [users[u] EXCEPT !.streakDays = 0]]_vars

-----------------------------------------------------------------------------
(* SearchItemsUseCase.generateCacheKey as text:
   `search:${Buffer.from(JSON.stringify(key)).toString('base64')}` *)

\* the printable ASCII characters from the space (code 32) to the underscore
\* (code 95)
AsciiLow ==
    <<" ", "!", "\"", "#", "$", "%", "&", "'", "(", ")", "*", "+", ",",
      "-", ".", "/", "0", "1", "2", "3", "4", "5", "6", "7", "8", "9", ":",
      ";", "<", "=", ">", "?", "@", "A", "B", "C", "D", "E", "F", "G", "H",
      "I", "J", "K", "L", "M", "N", "O", "P", "Q", "R", "S", "T", "U", "V",
      "W", "X", "Y", "Z", "[", "\\", "]", "^", "_">>

\* the printable ASCII characters from a (code 97) to the tilde (code 126)
AsciiHigh ==
    <<"a", "b", "c", "d", "e", "f", "g", "h", "i", "j", "k", "l", "m", "n",
      "o", "p", "q", "r", "s", "t", "u", "v", "w", "x", "y", "z", "{", "|",
      "}", "~">>

\* the UTF-16 code unit, and UTF-8 byte, of a character
CodeOf ==
    [c \in {AsciiLow[i] : i \in 1..Len(AsciiLow)}
            \cup {AsciiHigh[i] : i \in 1..Len(AsciiHigh)} |->
        IF \E i \in 1..Len(AsciiLow) : AsciiLow[i] = c
        THEN 31 + CHOOSE i \in 1..Len(AsciiLow) : AsciiLow[i] = c
        ELSE 96 + CHOOSE i \in 1..Len(AsciiHigh) : AsciiHigh[i] = c]

\* Buffer.from(text): the bytes of the text
BufferFrom(text) == [i \in 1..Len(text) |-> CodeOf[text[i]]]

Base64Alphabet ==
    <<"A", "B", "C", "D", "E", "F", "G", "H", "I", "J", "K", "L", "M", "N",
      "O", "P", "Q", "R", "S", "T", "U", "V", "W", "X", "Y", "Z", "a", "b",
      "c", "d", "e", "f", "g", "h", "i", "j", "k", "l", "m", "n", "o", "p",
      "q", "r", "s", "t", "u", "v", "w", "x", "y", "z", "0", "1", "2", "3",
      "4", "5", "6", "7", "8", "9", "+", "/">>

\* buffer.toString('base64'): three bytes make four characters, and "=" fills
\* the last four up
Base64(bytes) ==
    LET n == Len(bytes)
        byte(i) == IF i <= n THEN bytes[i] ELSE 0
        group(g) == byte(3 * g - 2) * 65536 + byte(3 * g - 1) * 256 + byte(3 * g)
        sextet(g, k) == (group(g) \div <<262144, 4096, 64, 1>>[k + 1]) % 64
    IN [i \in 1..(4 * ((n + 2) \div 3)) |->
           LET g == (i - 1) \div 4 + 1
               k == (i - 1) % 4
           IN IF k = 2 /\ 3 * g - 1 > n THEN "="
              ELSE IF k = 3 /\ 3 * g > n THEN "="
              ELSE Base64Alphabet[sextet(g, k) + 1]]

\* the texts of a sequence, one after the other, with sep between them
RECURSIVE Join(_, _)
Join(texts, sep) ==
    IF texts = <<>> THEN <<>>
    ELSE IF Len(texts) = 1 THEN texts[1]
    ELSE texts[1] \o sep \o Join(Tail(texts), sep)

\* a JSON.stringify that puts strings between quotes as they are
EscapeNothing(str) == str

\* JSON.stringify of the characters of a string: the quote and the backslash
\* get a backslash before them
Escape(str) ==
    Join([i \in 1..Len(str) |->
             IF str[i] \in {"\"", "\\"} THEN <<"\\", str[i]>> ELSE <<str[i]>>], <<>>)

\* JSON.stringify of a string
Quote(str) == <<"\"">> \o Escape(str) \o <<"\"">>

\* the decimal digits of a natural number, at least width of them
RECURSIVE Decimal(_, _)
Decimal(n, width) ==
    LET digit == <<"0", "1", "2", "3", "4", "5", "6", "7", "8", "9">>[(n % 10) + 1]
    IN IF n < 10 /\ width <= 1 THEN <<digit>>
       ELSE Decimal(n \div 10, width - 1) \o <<digit>>

\* Date.prototype.toISOString, for a time in the first day of 1970
toISOString(t) ==
    <<"1", "9", "7", "0", "-", "0", "1", "-", "0", "1", "T">>
        \o Decimal(t \div 3600000, 2) \o <<":">>
        \o Decimal((t \div 60000) % 60, 2) \o <<":">>
        \o Decimal((t \div 1000) % 60, 2) \o <<".">>
        \o Decimal(t % 1000, 3) \o <<"Z">>

\* a < b for strings: the order of their UTF-16 code units
StringLess(a, b) ==
    \E k \in 1..(Len(a) + 1) :
        /\ \A j \in 1..(k - 1) : j <= Len(b) /\ a[j] = b[j]
        /\ k <= Len(b)
        /\ k > Len(a) \/ CodeOf[a[k]] < CodeOf[b[k]]

\* Array.prototype.sort() of an array of strings
RECURSIVE SortStrings(_)
SortStrings(strs) ==
    IF strs = <<>> THEN <<>>
    ELSE LET k == CHOOSE i \in 1..Len(strs) :
                     /\ \A j \in 1..Len(strs) : ~StringLess(strs[j], strs[i])
                     /\ \A j \in 1..(i - 1) : StringLess(strs[i], strs[j])
         IN <<strs[k]>> \o SortStrings(SubSeq(strs, 1, k - 1)
                                        \o SubSeq(strs, k + 1, Len(strs)))

\* JSON.stringify of the key object: its properties in the order they were
\* written, those that are undefined left out
StringifyKey(input) ==
    LET member(name, value) == {Quote(name) \o <<":">> \o v : v \in value}
        text(opt) == {Quote(v) : v \in opt}
        members ==
            <<member(<<"u", "s", "e", "r", "I", "d">>, text({input.userId})),
              member(<<"q", "u", "e", "r", "y">>, text({input.query})),
              member(<<"t", "y", "p", "e">>, text(input.type)),
              member(<<"r", "e", "a", "d", "D", "a", "t", "e", "F", "r", "o", "m">>, {Quote(toISOString(t)) : t \in input.readDateFrom}),
              member(<<"r", "e", "a", "d", "D", "a", "t", "e", "T", "o">>, {Quote(toISOString(t)) : t \in input.readDateTo}),
              member(<<"t", "a", "g", "s">>,
                     {<<"[">> \o Join([i \in 1..Len(tags) |-> Quote(SortStrings(tags)[i])],
                                     <<",">>) \o <<"]">> : tags \in input.tags}),
              member(<<"s", "o", "r", "t", "B", "y">>, text({input.sortBy})),
              member(<<"c", "u", "r", "s", "o", "r">>, text(input.cursor)),
              member(<<"l", "i", "m", "i", "t">>, {Decimal(input.limit, 1)})>>
        kept == SelectSeq(members, Present)
    IN <<"{">> \o Join([i \in 1..Len(kept) |-> ValueOf(kept[i])], <<",">>) \o <<"}">>

\* generateCacheKey, as the string it returns
CacheKeyString(input) ==
    <<"s", "e", "a", "r", "c", "h", ":">> \o Base64(BufferFrom(StringifyKey(input)))

\* a validated search input with no filter, as validateInput hands it to
\* generateCacheKey: sortBy and limit have their defaults
PlainInput ==
    [userId |-> <<"u", "1">>, query |-> QueryAb, type |-> {}, readDateFrom |-> {},
     readDateTo |-> {}, tags |-> {}, sortBy |-> <<"r", "e", "l", "e", "v", "a", "n", "c", "e">>, cursor |-> {},
     limit |-> 20]

\* a query that reads like the end of the query and a type after it
QueryLikeType == <<"a", "b", "\"", ",", "\"", "t", "y", "p", "e", "\"", ":", "\"", "B", "O", "O", "K">>

\* the tags of the inputs: in two orders, with a capital, with a tag that is the
\* start of another, with a tag twice, with a tag that reads like two tags
TagLists ==
    {<<>>, <<<<"a">>>>, <<<<"a">>, <<"a">>>>, <<<<"a">>, <<"b">>>>,
     <<<<"b">>, <<"a">>>>, <<<<"a">>, <<"B">>>>, <<<<"a", "b">>, <<"a">>>>,
     <<<<"a", "\"", ",", "\"", "b">>>>}

\* the inputs the keys are generated for: PlainInput, and PlainInput with one
\* or two of its properties changed
KeyInputs ==
    {PlainInput,
     [PlainInput EXCEPT !.userId = <<"u", "2">>],
     [PlainInput EXCEPT !.query = QueryLikeType],
     [PlainInput EXCEPT !.type = {<<"B", "O", "O", "K">>}],
     [PlainInput EXCEPT !.type = {<<"P", "A", "P", "E", "R">>}],
     [PlainInput EXCEPT !.readDateFrom = {0}],
     [PlainInput EXCEPT !.readDateFrom = {HOUR_MS + 1}],
     [PlainInput EXCEPT !.readDateTo = {0}],
     [PlainInput EXCEPT !.sortBy = <<"d", "a", "t", "e", "_", "a", "d", "d", "e", "d">>],
     [PlainInput EXCEPT !.cursor = {<<"2">>}],
     [PlainInput EXCEPT !.cursor = {<<>>}],
     [PlainInput EXCEPT !.limit = 2],
     [PlainInput EXCEPT !.limit = 2, !.cursor = {<<"0">>}],
     [PlainInput EXCEPT !.userId = <<"u", "2">>, !.tags = {<<<<"b">>, <<"a">>>>}]}
    \cup {[PlainInput EXCEPT !.tags = {tags}] : tags \in TagLists}

\* generateCacheKey(validatedInput), for the two inputs: the tags of each input
\* are sorted where they are
GenerateKeys ==
    /\ keyed.pc = "validated"
    /\ keyed' = [keyed EXCEPT
           !.pc = "done",
           !.inputs = [i \in 1..2 |->
               [keyed.inputs[i] EXCEPT
                   !.tags = {SortStrings(tags) : tags \in keyed.inputs[i].tags}]],
           !.keys = [i \in 1..2 |-> CacheKeyString(keyed.inputs[i])]]
    /\ UNCHANGED outsideKeys

InitCacheKey ==
    /\ now = StartTime
    /\ items = {}
    /\ users = [u \in {KnownUser} |-> UserStatsCtor([totalItems |-> 0])]
    /\ IngestionIdle
    /\ StreakIdle
    /\ LimiterIdle
    /\ SearchIdle
    /\ pager = IdlePager
    /\ AccountsIdle
    /\ BreakerIdle
    /\ TiersIdle
    /\ \E a \in KeyInputs, b \in KeyInputs :
           keyed = [pc |-> "validated", requests |-> <<a, b>>, inputs |-> <<a, b>>,
                    keys |-> <<>>]

NextCacheKey == GenerateKeys

SpecCacheKey == InitCacheKey /\ [][NextCacheKey]_vars

\* the tags of an input as a set
TagSet(input) == {{tags[i] : i \in 1..Len(tags)} : tags \in input.tags}

\* the properties of an input other than its tags
Untagged(input) == [input EXCEPT !.tags = {}]

\* how many times a tag is in the tags of an input
TagCount(input, tag) ==
    Cardinality({i \in 1..Len(ValueOf(input.tags)) : ValueOf(input.tags)[i] = tag})

\* two inputs are the same but for the order of their tags
SameButTagOrder(a, b) ==
    /\ Untagged(a) = Untagged(b)
    /\ Present(a.tags) <=> Present(b.tags)
    /\ Present(a.tags) =>
           /\ Len(ValueOf(a.tags)) = Len(ValueOf(b.tags))
           /\ \A i \in 1..Len(ValueOf(a.tags)) :
                  TagCount(a, ValueOf(a.tags)[i]) = TagCount(b, ValueOf(a.tags)[i])

\* C39: two requests that differ in their userId, query, type, readDateFrom,
\* readDateTo, set of tags, sortBy, cursor or limit get different cache keys, and
\* two requests that differ only in the order of their tags get the same key
C39_KeySeparatesRequests ==
    keyed.pc = "done" =>
        LET a == keyed.requests[1]
            b == keyed.requests[2]
        IN /\ Untagged(a) # Untagged(b) \/ TagSet(a) # TagSet(b)
                  => keyed.keys[1] # keyed.keys[2]
           /\ SameButTagOrder(a, b) => keyed.keys[1] = keyed.keys[2]

\* keys have been generated for two requests of one user whose tags are in
\* different orders, and the keys are the same
C39_Witness ==
    /\ keyed.pc = "done"
    /\ keyed.requests[1].tags # keyed.requests[2].tags
    /\ SameButTagOrder(keyed.requests[1], keyed.requests[2])
    /\ keyed.keys[1] = keyed.keys[2]

=============================================================================
